---- MODULE Spec2Model ----
(***************************************************************************)
(* A model of the PostgreSQL MCP server's connection session, query safety *)
(* gate and query execution path (internal/app/app.go, client.go).         *)
(*                                                                         *)
(* Strings the code inspects character by character (SQL text) are         *)
(* sequences of one-character strings.  Errors are chains of messages as   *)
(* fmt.Errorf("...: %w") builds them: <<>> is nil, the last element is the *)
(* root cause.                                                             *)
(***************************************************************************)
EXTENDS Integers, Sequences, FiniteSets, TLC

\* ------------------------------------------------------------------ bounds
\* Number of *sql.DB objects that can exist at once (open, or closed but
\* still referenced).
MaxHandles == 2
\* Largest result set the database returns for a query.
MaxRows == 2

Handles == 1..MaxHandles

\* ------------------------------------------------------- connection strings
\* Two well-formed connection strings naming two servers, and a malformed
\* one that sql.Open rejects.
ConnStrings == {"csA", "csB"}
BadString == "bad"

\* ------------------------------------------------------------------ errors
ErrConnectionRequired == "ErrConnectionRequired"
ErrNoConnectionString == "ErrNoConnectionString"
ErrNoDatabaseConnection == "ErrNoDatabaseConnection"
ErrInvalidQuery == "ErrInvalidQuery"
ErrQueryRequired == "ErrQueryRequired"
DriverError == "driver error"

NoErr == <<>>
Wrap(msg, err) == <<msg>> \o err
\* errors.Is(err, target) for the sentinel errors, which are always the root.
Is(err, target) == err # <<>> /\ err[Len(err)] = target
\* strings.Contains(err.Error(), msg) for a message of the chain.
Mentions(err, msg) == \E i \in 1..Len(err) : err[i] = msg

\* ------------------------------------------------------------- SQL strings
\* Letters that have an upper-case form.  LongS (U+017F) and DotlessI
\* (U+0131) are the two non-ASCII runes unicode.ToUpper maps to ASCII.
LongS == "U+017F"
DotlessI == "U+0131"
LowerRunes ==
  <<"a", "b", "c", "d", "e", "f", "g", "h", "i", "j", "k", "l", "m", "n", "o",
    "p", "q", "r", "s", "t", "u", "v", "w", "x", "y", "z", LongS, DotlessI>>
UpperRunes ==
  <<"A", "B", "C", "D", "E", "F", "G", "H", "I", "J", "K", "L", "M", "N", "O",
    "P", "Q", "R", "S", "T", "U", "V", "W", "X", "Y", "Z", "S", "I">>
\* unicode.IsSpace, restricted to the runes used here.
SpaceRunes == {" ", "\t", "\n", "\r"}

\* unicode.ToUpper as a table from each lower-case rune to its upper case.
UpperOf ==
  LET Build[i \in 0..Len(LowerRunes)] ==
        IF i = 0 THEN <<>> ELSE (LowerRunes[i] :> UpperRunes[i]) @@ Build[i - 1]
  IN Build[Len(LowerRunes)]

ToUpperRune(c) == IF c \in DOMAIN UpperOf THEN UpperOf[c] ELSE c

\* strings.ToUpper: rune by rune.
ToUpper(s) == SubSeq([i \in 1..Len(s) |-> ToUpperRune(s[i])], 1, Len(s))

\* strings.TrimSpace: drop the leading and the trailing white space.
RECURSIVE TrimLeft(_)
TrimLeft(s) ==
  IF s # <<>> /\ Head(s) \in SpaceRunes THEN TrimLeft(Tail(s)) ELSE s
RECURSIVE TrimRight(_)
TrimRight(s) ==
  IF s # <<>> /\ s[Len(s)] \in SpaceRunes THEN TrimRight(SubSeq(s, 1, Len(s) - 1)) ELSE s
TrimSpace(s) == TrimRight(TrimLeft(s))

\* strings.HasPrefix
HasPrefix(s, p) == Len(s) >= Len(p) /\ SubSeq(s, 1, Len(p)) = p

\* strings.Contains, on rune sequences.
ContainsSeq(s, p) ==
  \E i \in 1..(Len(s) - Len(p) + 1) : SubSeq(s, i, i + Len(p) - 1) = p

KwSelect == <<"S", "E", "L", "E", "C", "T">>
KwWith == <<"W", "I", "T", "H">>
KwDelete == <<"D", "E", "L", "E", "T", "E">>
KwInsert == <<"I", "N", "S", "E", "R", "T">>
KwUpdate == <<"U", "P", "D", "A", "T", "E">>
KwDrop == <<"D", "R", "O", "P">>
KwExplain == <<"E", "X", "P", "L", "A", "I", "N">>
KwAnalyze == <<"A", "N", "A", "L", "Y", "Z", "E">>

\* A mutated gate: the keyword compared case-sensitively, without ToUpper.
validateQueryCaseSensitive(query) ==
  LET trimmedQuery == TrimSpace(query)
  IN IF ~HasPrefix(trimmedQuery, KwSelect) /\ ~HasPrefix(trimmedQuery, KwWith)
     THEN <<ErrInvalidQuery>>
     ELSE NoErr

\* validateQuery (client.go): nil iff the query is allowed.
validateQuery(query) ==
  LET trimmedQuery == TrimSpace(ToUpper(query))
  IN IF ~HasPrefix(trimmedQuery, KwSelect) /\ ~HasPrefix(trimmedQuery, KwWith)
     THEN <<ErrInvalidQuery>>
     ELSE NoErr

\* "EXPLAIN (ANALYZE, BUFFERS, FORMAT JSON) "
ExplainPrefix ==
  <<"E", "X", "P", "L", "A", "I", "N", " ", "(", "A", "N", "A", "L", "Y", "Z",
    "E", ",", " ", "B", "U", "F", "F", "E", "R", "S", ",", " ", "F", "O", "R",
    "M", "A", "T", " ", "J", "S", "O", "N", ")", " ">>

\* The statement ListDatabases sends (its first line and FROM clause).
ListDatabasesSQL ==
  <<"S", "E", "L", "E", "C", "T", " ", "d", "a", "t", "n", "a", "m", "e", " ",
    "F", "R", "O", "M", " ", "p", "g", "_", "d", "a", "t", "a", "b", "a", "s",
    "e">>

\* Queries the tool calls of the session model are made with.
QLower == <<" ", "s", "e", "l", "e", "c", "t", " ", "1">>
QCte ==
  <<"W", "I", "T", "H", " ", "d", " ", "A", "S", " ", "(", "D", "E", "L", "E",
    "T", "E", " ", "F", "R", "O", "M", " ", "t", ")", " ", "S", "E", "L", "E",
    "C", "T", " ", "1">>
QDrop == <<"D", "R", "O", "P", " ", "T", "A", "B", "L", "E", " ", "t">>
QEmpty == <<>>
Queries == {QLower, QCte, QDrop, QEmpty}

\* PostgreSQL's side: a statement changes data when it holds a data-modifying
\* command and is executed; a plain EXPLAIN only plans, EXPLAIN ANALYZE runs
\* the statement.
StatementWrites(sql) ==
  LET u == ToUpper(sql)
  IN /\ \E kw \in {KwDelete, KwInsert, KwUpdate, KwDrop} : ContainsSeq(u, kw)
     /\ HasPrefix(TrimSpace(u), KwExplain) => ContainsSeq(u, KwAnalyze)

\* ------------------------------------------------------------ result rows
\* What the driver hands to rows.Scan: lib/pq returns text-like values as
\* []byte and integers as int64.
Columns == <<"id", "name">>
DriverRow(i) == <<[kind |-> "int64", val |-> i], [kind |-> "bytes", val |-> i]>>
DriverRows(n) == [i \in 1..n |-> DriverRow(i)]

\* A mutated processRows that turns every value into a string.
processRowsStringify(rows) ==
  [i \in 1..Len(rows) |->
     [j \in 1..Len(rows[i]) |-> [kind |-> "string", val |-> rows[i][j].val]]]

\* processRows (client.go): []byte values become strings, the rest is kept.
processRows(rows) ==
  [i \in 1..Len(rows) |->
     [j \in 1..Len(rows[i]) |->
        IF rows[i][j].kind = "bytes"
        THEN [kind |-> "string", val |-> rows[i][j].val]
        ELSE rows[i][j]]]

NoResult == [columns |-> <<>>, rows |-> <<>>, row_count |-> -1]

\* ------------------------------------------------------------------- state
VARIABLES
  app,               \* "none" before New(), "ready" after
  client,            \* App.client: "nil" or "impl"
  env,               \* the process environment: POSTGRES_URL, DATABASE_URL
  up,                \* the connection strings whose server is reachable
  hstate,            \* every *sql.DB: "free" (not allocated), "open", "closed"
  htarget,           \* the connection string a *sql.DB was opened with
  db,                \* PostgreSQLClientImpl.db (0 is nil)
  connectionString,  \* PostgreSQLClientImpl.connectionString
  dataModified,      \* the database executed a data-modifying statement
  last,              \* the most recent call: its inputs, trace and outcome
  gateIn,            \* the input of the function under check: a SQL text, or driver rows
  gateOut,           \* its answer: whether it has run, its error, its rows
  procs              \* the concurrent tool calls in flight (SpecConc)

vars ==
  <<app, client, env, up, hstate, htarget, db, connectionString, dataModified,
    last, gateIn, gateOut, procs>>

\* ----------------------------------------------------------- the session
\* The client's fields and the handles as one value that the methods pass
\* along, with the trace of driver calls made during the current call.
Sess ==
  [hstate |-> hstate, htarget |-> htarget, db |-> db, cstr |-> connectionString,
   wrote |-> dataModified, log |-> <<>>, fault |-> "none"]

\* The driver failing after the statement was accepted: in rows.Scan of a row
\* ("scan") or reported by rows.Err after the loop ("rows").
Faulty(f) == [Sess EXCEPT !.fault = f]
\* The driver faults tried on a call: all of them on the calls picked by
\* cond, none elsewhere.
FaultsIf(cond) == IF cond THEN {"none", "scan", "rows"} ELSE {"none"}
\* json.Marshal of the value a handler got can fail.
MarshalIf(cond) == IF cond THEN {"none", "marshal"} ELSE {"none"}

Ev(e, h, cs, sql, ok) == [ev |-> e, h |-> h, cs |-> cs, sql |-> sql, ok |-> ok]
Logged(s, e) == [s EXCEPT !.log = Append(@, e)]
Ret(s, err) == [s |-> s, err |-> err]

FreeIds(s) == {h \in Handles : s.hstate[h] = "free"}
\* sql.Open allocates a new *sql.DB.
NewHandle(s) == CHOOSE h \in FreeIds(s) : \A g \in FreeIds(s) : h <= g
OpenIds == {h \in Handles : hstate[h] = "open"}

\* db.PingContext: the pool reaches its server or not.
Alive(s, h) == s.hstate[h] = "open" /\ s.htarget[h] \in up

\* PostgreSQLClientImpl.Connect: sql.Open, PingContext on the new handle
\* (closed again when the ping fails), then c.db and c.connectionString are
\* overwritten.  The handle c.db held before is not closed.
clientConnect(s, cs) ==
  IF cs = BadString
  THEN Ret(Logged(s, Ev("Open", 0, cs, <<>>, FALSE)), <<"failed to open database connection", DriverError>>)
  ELSE LET h == NewHandle(s)
       IN IF cs \notin up
          THEN Ret(Logged(s, Ev("Open", h, cs, <<>>, FALSE)), <<"failed to ping database", DriverError>>)
          ELSE Ret(Logged([s EXCEPT !.hstate[h] = "open", !.htarget[h] = cs,
                                    !.db = h, !.cstr = cs],
                          Ev("Open", h, cs, <<>>, TRUE)), NoErr)

\* A mutated Close: closing a closed handle reports the driver's
\* "sql: database is closed".
clientCloseStrict(s, closeOk) ==
  IF s.db # 0
  THEN IF s.hstate[s.db] = "closed"
       THEN Ret(Logged(s, Ev("CloseClosed", s.db, "", <<>>, FALSE)),
                <<"failed to close database", DriverError>>)
       ELSE IF closeOk
            THEN Ret(Logged([s EXCEPT !.hstate[s.db] = "closed"], Ev("Close", s.db, "", <<>>, TRUE)), NoErr)
            ELSE Ret(Logged([s EXCEPT !.hstate[s.db] = "closed"], Ev("Close", s.db, "", <<>>, FALSE)),
                     <<"failed to close database", DriverError>>)
  ELSE Ret(s, NoErr)

\* A mutated Close that also forgets the handle (c.db = nil).
clientCloseClearsHandle(s, closeOk) ==
  IF s.db # 0
  THEN IF closeOk
       THEN Ret(Logged([s EXCEPT !.hstate[s.db] = "closed", !.db = 0],
                       Ev("Close", s.db, "", <<>>, TRUE)), NoErr)
       ELSE Ret(Logged([s EXCEPT !.hstate[s.db] = "closed", !.db = 0],
                       Ev("Close", s.db, "", <<>>, FALSE)),
                <<"failed to close database", DriverError>>)
  ELSE Ret(s, NoErr)

\* PostgreSQLClientImpl.Close: c.db.Close() when c.db is set; c.db is kept.
\* sql.DB.Close marks the pool closed and returns the error of closing its
\* connections, if any (closeOk); on a closed pool it returns nil at once
\* (the event CloseClosed).
clientClose(s, closeOk) ==
  IF s.db # 0
  THEN IF s.hstate[s.db] = "closed"
       THEN Ret(Logged(s, Ev("CloseClosed", s.db, "", <<>>, TRUE)), NoErr)
       ELSE IF closeOk
            THEN Ret(Logged([s EXCEPT !.hstate[s.db] = "closed"], Ev("Close", s.db, "", <<>>, TRUE)), NoErr)
            ELSE Ret(Logged([s EXCEPT !.hstate[s.db] = "closed"], Ev("Close", s.db, "", <<>>, FALSE)),
                     <<"failed to close database", DriverError>>)
  ELSE Ret(s, NoErr)

\* PostgreSQLClientImpl.Ping
clientPing(s) ==
  IF s.db = 0
  THEN Ret(Logged(s, Ev("Ping", 0, "", <<>>, FALSE)), <<ErrNoDatabaseConnection>>)
  ELSE IF Alive(s, s.db)
       THEN Ret(Logged(s, Ev("Ping", s.db, "", <<>>, TRUE)), NoErr)
       ELSE Ret(Logged(s, Ev("Ping", s.db, "", <<>>, FALSE)), <<"failed to ping database", DriverError>>)

\* A statement sent on the session's handle.  It is executed when the pool is
\* open, its server reachable and the database accepts it (dbok).
Executed(s, dbok) == Alive(s, s.db) /\ dbok
runQuery(s, sql, dbok) ==
  Logged([s EXCEPT !.wrote = @ \/ (Executed(s, dbok) /\ StatementWrites(sql))],
         Ev("Query", s.db, "", sql, Executed(s, dbok)))

Res(s, err, res) == [s |-> s, err |-> err, res |-> res]
\* A mutated row loop that never looks at the error of Scan or of rows.Err.
FetchUnchecked(q, n, scanMsg, rowsMsg, res) == Res(q, NoErr, res)

\* The rows of an answered statement read with rows.Next / rows.Scan /
\* rows.Err: n rows, res the value built from them.
Fetch(q, n, scanMsg, rowsMsg, res) ==
  IF q.fault = "scan" /\ n > 0
  THEN Res(q, <<scanMsg, DriverError>>, NoResult)
  ELSE IF q.fault = "rows"
       THEN Res(q, <<rowsMsg, DriverError>>, NoResult)
       ELSE Res(q, NoErr, res)
QueryResult(columns, rows) == [columns |-> columns, rows |-> rows, row_count |-> Len(rows)]

\* PostgreSQLClientImpl.ListDatabases; a database is one result row.
clientListDatabases(s, dbok, n) ==
  IF s.db = 0
  THEN Res(s, <<ErrNoDatabaseConnection>>, NoResult)
  ELSE IF Executed(s, dbok)
       THEN Fetch(runQuery(s, ListDatabasesSQL, dbok), n,
                  "failed to scan database row", "failed to iterate database rows",
                  QueryResult(<<"datname", "owner", "encoding">>, [i \in 1..n |-> i]))
       ELSE Res(runQuery(s, ListDatabasesSQL, dbok),
                <<"failed to list databases", DriverError>>, NoResult)

\* A mutated ExecuteQuery that sends the statement before consulting the gate.
clientExecuteQueryGateLast(s, query, dbok, n) ==
  IF s.db = 0
  THEN Res(s, <<ErrNoDatabaseConnection>>, NoResult)
  ELSE IF validateQuery(query) # NoErr
       THEN Res(runQuery(s, query, dbok), validateQuery(query), NoResult)
       ELSE IF Executed(s, dbok)
            THEN Res(runQuery(s, query, dbok), NoErr,
                     QueryResult(Columns, processRows(DriverRows(n))))
            ELSE Res(runQuery(s, query, dbok), <<"failed to execute query", DriverError>>, NoResult)

\* A mutated ExecuteQuery that consults the gate before the handle.
clientExecuteQueryGateFirst(s, query, dbok, n) ==
  IF validateQuery(query) # NoErr
  THEN Res(s, validateQuery(query), NoResult)
  ELSE IF s.db = 0
       THEN Res(s, <<ErrNoDatabaseConnection>>, NoResult)
       ELSE IF Executed(s, dbok)
            THEN Res(runQuery(s, query, dbok), NoErr,
                     QueryResult(Columns, processRows(DriverRows(n))))
            ELSE Res(runQuery(s, query, dbok), <<"failed to execute query", DriverError>>, NoResult)

\* PostgreSQLClientImpl.ExecuteQuery
clientExecuteQuery(s, query, dbok, n) ==
  IF s.db = 0
  THEN Res(s, <<ErrNoDatabaseConnection>>, NoResult)
  ELSE IF validateQuery(query) # NoErr
       THEN Res(s, validateQuery(query), NoResult)
       ELSE IF Executed(s, dbok)
            THEN Fetch(runQuery(s, query, dbok), n,
                       "failed to scan row", "failed to iterate query rows",
                       QueryResult(Columns, processRows(DriverRows(n))))
            ELSE Res(runQuery(s, query, dbok), <<"failed to execute query", DriverError>>, NoResult)

\* The plan comes back as one row of one text column.
PlanColumns == <<"QUERY PLAN">>
PlanRows == <<(<<[kind |-> "bytes", val |-> 0]>>)>>

\* PostgreSQLClientImpl.ExplainQuery
clientExplainQuery(s, query, dbok) ==
  IF s.db = 0
  THEN Res(s, <<ErrNoDatabaseConnection>>, NoResult)
  ELSE IF validateQuery(query) # NoErr
       THEN Res(s, validateQuery(query), NoResult)
       ELSE LET explainQuery == ExplainPrefix \o query
            IN IF Executed(s, dbok)
               THEN Fetch(runQuery(s, explainQuery, dbok), Len(PlanRows),
                          "failed to scan row", "failed to iterate query rows",
                          QueryResult(PlanColumns, processRows(PlanRows)))
               ELSE Res(runQuery(s, explainQuery, dbok),
                        <<"failed to execute explain query", DriverError>>, NoResult)

\* -------------------------------------------------------------------- App
\* os.Getenv("POSTGRES_URL"), else os.Getenv("DATABASE_URL").
EnvConnectionString ==
  IF env.POSTGRES_URL # "" THEN env.POSTGRES_URL ELSE env.DATABASE_URL

\* A mutated tryConnect that prefers DATABASE_URL.
tryConnectDatabaseUrlFirst(s) ==
  LET cs == IF env.DATABASE_URL # "" THEN env.DATABASE_URL ELSE env.POSTGRES_URL
      t == Logged(s, Ev("TryConnect", 0, cs, <<>>, TRUE))
  IN IF cs = ""
     THEN Ret(t, <<ErrNoConnectionString>>)
     ELSE LET r == clientConnect(t, cs)
          IN IF r.err # NoErr THEN Ret(r.s, Wrap("failed to connect", r.err))
                              ELSE Ret(r.s, NoErr)

\* App.tryConnect
tryConnect(s) ==
  LET t == Logged(s, Ev("TryConnect", 0, EnvConnectionString, <<>>, TRUE))
  IN IF EnvConnectionString = ""
     THEN Ret(t, <<ErrNoConnectionString>>)
     ELSE LET r == clientConnect(t, EnvConnectionString)
          IN IF r.err # NoErr THEN Ret(r.s, Wrap("failed to connect", r.err))
                              ELSE Ret(r.s, NoErr)

\* A mutated ensureConnection that gives up when the ping fails.
ensureConnectionNoReconnect(s) ==
  IF client = "nil"
  THEN Ret(s, <<ErrConnectionRequired>>)
  ELSE LET p == clientPing(s)
       IN IF p.err # NoErr THEN Ret(p.s, <<ErrConnectionRequired>>) ELSE Ret(p.s, NoErr)

\* A mutated ensureConnection that retries the reconnect once more.
ensureConnectionRetry(s) ==
  IF client = "nil"
  THEN Ret(s, <<ErrConnectionRequired>>)
  ELSE LET p == clientPing(s)
       IN IF p.err # NoErr
          THEN LET r == tryConnect(p.s)
               IN IF r.err # NoErr
                  THEN LET r2 == tryConnect(r.s)
                       IN IF r2.err # NoErr THEN Ret(r2.s, <<ErrConnectionRequired>>)
                                            ELSE Ret(r2.s, NoErr)
                  ELSE Ret(r.s, NoErr)
          ELSE Ret(p.s, NoErr)

\* A mutated ensureConnection that reconnects with the string the client
\* stored at its last successful Connect.
ensureConnectionStored(s) ==
  IF client = "nil"
  THEN Ret(s, <<ErrConnectionRequired>>)
  ELSE LET p == clientPing(s)
       IN IF p.err # NoErr
          THEN LET r == IF s.cstr # "" THEN clientConnect(p.s, s.cstr) ELSE tryConnect(p.s)
               IN IF r.err # NoErr THEN Ret(r.s, <<ErrConnectionRequired>>)
                                   ELSE Ret(r.s, NoErr)
          ELSE Ret(p.s, NoErr)

\* App.ensureConnection
ensureConnection(s) ==
  IF client = "nil"
  THEN Ret(s, <<ErrConnectionRequired>>)
  ELSE LET p == clientPing(s)
       IN IF p.err # NoErr
          THEN LET r == tryConnect(p.s)
               IN IF r.err # NoErr THEN Ret(r.s, <<ErrConnectionRequired>>)
                                   ELSE Ret(r.s, NoErr)
          ELSE Ret(p.s, NoErr)

\* New: the startup connect is attempted and its failure only logged.
AppNew(s) == Ret(tryConnect(s).s, NoErr)

\* App.Disconnect
AppDisconnect(s, closeOk) ==
  IF client # "nil"
  THEN LET r == clientClose(s, closeOk)
       IN IF r.err # NoErr THEN Ret(r.s, Wrap("failed to close database connection", r.err))
                           ELSE Ret(r.s, NoErr)
  ELSE Ret(s, NoErr)

\* App.Connect, the explicit connect of the connect_database tool: an empty
\* string is refused, a live connection is closed first, then the client
\* connects.
\* A mutated Connect that closes the existing connection without pinging it.
AppConnectCloseFirst(s, cs, closeOk) ==
  IF cs = ""
  THEN Ret(s, <<ErrNoConnectionString>>)
  ELSE LET r == clientConnect(clientClose(s, closeOk).s, cs)
       IN IF r.err # NoErr THEN Ret(r.s, Wrap("failed to connect", r.err))
                           ELSE Ret(r.s, NoErr)

AppConnect(s, cs, closeOk) ==
  IF cs = ""
  THEN Ret(s, <<ErrNoConnectionString>>)
  ELSE LET p == clientPing(s)
           c == IF p.err = NoErr THEN clientClose(p.s, closeOk).s ELSE p.s
           r == clientConnect(c, cs)
       IN IF r.err # NoErr THEN Ret(r.s, Wrap("failed to connect", r.err))
                           ELSE Ret(r.s, NoErr)

\* App.ListDatabases
AppListDatabases(s, dbok, n) ==
  LET e == ensureConnection(s)
  IN IF e.err # NoErr
     THEN Res(e.s, e.err, NoResult)
     ELSE LET r == clientListDatabases(e.s, dbok, n)
          IN IF r.err # NoErr THEN Res(r.s, Wrap("failed to list databases", r.err), NoResult)
                              ELSE r

\* The options of a query call: a nil *ExecuteQueryOptions has isNil set.
Opts(isNil, query, limit) == [isNil |-> isNil, Query |-> query, Limit |-> limit]

\* A mutated limit that also truncates to zero rows when the limit is 0.
applyLimitFromZero(result, limit) ==
  IF limit >= 0 /\ Len(result.rows) > limit
  THEN [result EXCEPT !.rows = SubSeq(result.rows, 1, limit), !.row_count = limit]
  ELSE result

\* A mutated limit that truncates the rows and keeps the count.
applyLimitKeepCount(result, limit) ==
  IF limit > 0 /\ Len(result.rows) > limit
  THEN [result EXCEPT !.rows = SubSeq(result.rows, 1, limit)]
  ELSE result

\* App.ExecuteQuery, "Apply limit if specified"
applyLimit(result, limit) ==
  IF limit > 0 /\ Len(result.rows) > limit
  THEN [result EXCEPT !.rows = SubSeq(result.rows, 1, limit), !.row_count = limit]
  ELSE result

\* App.ExecuteQuery
AppExecuteQuery(s, opts, dbok, n) ==
  LET e == ensureConnection(s)
  IN IF e.err # NoErr
     THEN Res(e.s, e.err, NoResult)
     ELSE IF opts.isNil \/ opts.Query = <<>>
          THEN Res(e.s, <<ErrQueryRequired>>, NoResult)
          ELSE LET r == clientExecuteQuery(e.s, opts.Query, dbok, n)
               IN IF r.err # NoErr
                  THEN Res(r.s, Wrap("failed to execute query", r.err), NoResult)
                  ELSE Res(r.s, NoErr, applyLimit(r.res, opts.Limit))

\* App.ExplainQuery
AppExplainQuery(s, query, dbok) ==
  LET e == ensureConnection(s)
  IN IF e.err # NoErr
     THEN Res(e.s, e.err, NoResult)
     ELSE IF query = <<>>
          THEN Res(e.s, <<ErrQueryRequired>>, NoResult)
          ELSE LET r == clientExplainQuery(e.s, query, dbok)
               IN IF r.err # NoErr
                  THEN Res(r.s, Wrap("failed to explain query", r.err), NoResult)
                  ELSE r

\* ---------------------------------------------------------------- actions
\* The record of a call: the operation, its inputs, the trace of driver calls
\* it made, the error and the result it returned.
\* A value of request.GetArguments()[key]: absent, a JSON string, or a JSON
\* value of another type.
NoArg == [kind |-> "missing", val |-> 0]
StrArg(v) == [kind |-> "string", val |-> v]
NumArg(v) == [kind |-> "number", val |-> v]

\* What a tool handler added to a call: the argument it required, whether it
\* answered with mcp.NewToolResultError, the text, and the App methods it called.
NoTool == [arg |-> NoArg, isError |-> FALSE, text |-> <<>>, calls |-> <<>>, goErr |-> NoErr]
Call(op, opts, n, s, err, res) ==
  [op |-> op, query |-> opts.Query, limit |-> opts.Limit, isNil |-> opts.isNil,
   schema |-> "", table |-> "", includeSize |-> FALSE, n |-> n, err |-> err,
   log |-> s.log, res |-> res, tool |-> NoTool, fault |-> s.fault, sarg |-> NoArg]
NoOpts == Opts(FALSE, <<>>, 0)
Idle ==
  [op |-> "none", query |-> <<>>, limit |-> 0, isNil |-> FALSE, schema |-> "",
   table |-> "", includeSize |-> FALSE, n |-> 0, err |-> NoErr, log |-> <<>>,
   res |-> NoResult, tool |-> NoTool, fault |-> "none", sarg |-> NoArg]

\* A closed *sql.DB that the client no longer points to is garbage: its
\* identifier can name a later handle.
Collect(s) ==
  [s EXCEPT
     !.hstate = [h \in Handles |-> IF s.hstate[h] = "closed" /\ h # s.db THEN "free" ELSE s.hstate[h]],
     !.htarget = [h \in Handles |-> IF s.hstate[h] = "closed" /\ h # s.db THEN "" ELSE s.htarget[h]]]

\* The session after a call.
Commit(s) ==
  /\ hstate' = Collect(s).hstate
  /\ htarget' = Collect(s).htarget
  /\ db' = s.db
  /\ connectionString' = s.cstr
  /\ dataModified' = s.wrote

\* sql.Open needs a handle the bound leaves room for.
Room == FreeIds(Sess) # {}

\* Two tool calls served at the same time.
Procs == {1, 2}
IdleProc ==
  [pc |-> "idle", unusable |-> FALSE, h |-> 0, new |-> 0, cs |-> "",
   installed |-> 0, used |-> 0, stale |-> FALSE, err |-> NoErr]
GateIdle == [done |-> FALSE, err |-> NoErr]

PostgresUrls == {"", "csA"}
DatabaseUrls == {"", "csB"}

\* Before New(): no App, no client, no handle.
Boot ==
  /\ app = "none"
  /\ client = "nil"
  /\ hstate = [h \in Handles |-> "free"]
  /\ htarget = [h \in Handles |-> ""]
  /\ db = 0
  /\ connectionString = ""
  /\ dataModified = FALSE
  /\ last = Idle
  /\ procs = [p \in Procs |-> IdleProc]

Init ==
  /\ Boot
  /\ env \in [POSTGRES_URL : PostgresUrls, DATABASE_URL : DatabaseUrls]
  /\ up \in SUBSET ConnStrings
  /\ gateIn = <<>>
  /\ gateOut = GateIdle

\* New(): NewPostgreSQLClient() and the startup connect.
New ==
  /\ app = "none"
  /\ app' = "ready"
  /\ client' = "impl"
  /\ LET r == AppNew(Sess)
     IN /\ Commit(r.s)
        /\ last' = Call("New", NoOpts, 0, r.s, r.err, NoResult)
  /\ UNCHANGED <<env, up, gateIn, gateOut, procs>>

\* An App whose client is nil, as the tests build it.
NewNilClient ==
  /\ app = "none"
  /\ app' = "ready"
  /\ client' = "nil"
  /\ last' = Call("New", NoOpts, 0, Sess, NoErr, NoResult)
  /\ UNCHANGED <<env, up, hstate, htarget, db, connectionString, dataModified,
                 gateIn, gateOut, procs>>

\* The environment: a server becomes unreachable or reachable again, a
\* variable of the process environment is set.
ServerDown ==
  /\ \E cs \in up : up' = up \ {cs}
  /\ last' = Idle
  /\ UNCHANGED <<app, client, env, hstate, htarget, db, connectionString,
                 dataModified, gateIn, gateOut, procs>>

ServerUp ==
  /\ \E cs \in ConnStrings \ up : up' = up \cup {cs}
  /\ last' = Idle
  /\ UNCHANGED <<app, client, env, hstate, htarget, db, connectionString,
                 dataModified, gateIn, gateOut, procs>>

Setenv ==
  /\ \E e \in [POSTGRES_URL : PostgresUrls, DATABASE_URL : DatabaseUrls] :
       /\ e # env
       /\ env' = e
  /\ last' = Idle
  /\ UNCHANGED <<app, client, up, hstate, htarget, db, connectionString,
                 dataModified, gateIn, gateOut, procs>>

Ready == app = "ready" /\ \A p \in Procs : procs[p].pc = "idle"

\* App.Connect(connectionString)
Connect ==
  /\ Ready /\ client = "impl" /\ Room
  /\ \E cs \in {""} \cup ConnStrings \cup {BadString}, closeOk \in BOOLEAN :
       LET r == AppConnect(Sess, cs, closeOk)
       IN /\ Commit(r.s)
          /\ last' = [Call("Connect", NoOpts, 0, r.s, r.err, NoResult) EXCEPT !.query = <<cs>>]
  /\ UNCHANGED <<app, client, env, up, gateIn, gateOut, procs>>

\* App.Disconnect()
Disconnect ==
  /\ Ready
  /\ \E closeOk \in BOOLEAN :
       LET r == AppDisconnect(Sess, closeOk)
       IN /\ Commit(r.s)
          /\ last' = Call("Disconnect", NoOpts, 0, r.s, r.err, NoResult)
  /\ UNCHANGED <<app, client, env, up, gateIn, gateOut, procs>>

\* App.ListDatabases()
ListDatabases ==
  /\ Ready /\ Room
  /\ \E dbok \in BOOLEAN, n \in {0, MaxRows} :
     \E fault \in FaultsIf(dbok /\ n = MaxRows) :
       LET r == AppListDatabases(Faulty(fault), dbok, n)
       IN /\ Commit(r.s)
          /\ last' = Call("ListDatabases", NoOpts, n, r.s, r.err, r.res)
  /\ UNCHANGED <<app, client, env, up, gateIn, gateOut, procs>>

Limits == -1..MaxRows
\* The option values the calls are made with: every limit with the plain
\* query, no limit with the others, and nil options.
QueryOptions ==
  {Opts(FALSE, QLower, limit) : limit \in Limits}
    \cup {Opts(FALSE, q, 0) : q \in Queries} \cup {Opts(TRUE, <<>>, 0)}

\* App.ExecuteQuery(opts)
ExecuteQuery ==
  /\ Ready /\ Room
  /\ \E opts \in QueryOptions, dbok \in BOOLEAN :
     \E n \in IF dbok THEN 0..MaxRows ELSE {0} :
     \E fault \in FaultsIf(dbok /\ n = MaxRows /\ opts = Opts(FALSE, QLower, 0)) :
       LET r == AppExecuteQuery(Faulty(fault), opts, dbok, n)
       IN /\ Commit(r.s)
          /\ last' = Call("ExecuteQuery", opts, n, r.s, r.err, r.res)
  /\ UNCHANGED <<app, client, env, up, gateIn, gateOut, procs>>

\* App.ExplainQuery(query)
ExplainQuery ==
  /\ Ready /\ Room
  /\ \E q \in Queries, dbok \in BOOLEAN :
     \E fault \in FaultsIf(dbok /\ q = QLower) :
       LET r == AppExplainQuery(Faulty(fault), q, dbok)
       IN /\ Commit(r.s)
          /\ last' = Call("ExplainQuery", Opts(FALSE, q, 0), 1, r.s, r.err, r.res)
  /\ UNCHANGED <<app, client, env, up, gateIn, gateOut, procs>>

\* client.ExecuteQuery(query) and client.ExplainQuery(query) called on the
\* client itself, as the client's tests do.
ClientExecuteQuery ==
  /\ Ready /\ client = "impl"
  /\ \E q \in Queries, dbok \in BOOLEAN, n \in {MaxRows} :
       LET r == clientExecuteQuery(Sess, q, dbok, n)
       IN /\ Commit(r.s)
          /\ last' = Call("client.ExecuteQuery", Opts(FALSE, q, 0), n, r.s, r.err, r.res)
  /\ UNCHANGED <<app, client, env, up, gateIn, gateOut, procs>>

ClientExplainQuery ==
  /\ Ready /\ client = "impl"
  /\ \E q \in Queries, dbok \in BOOLEAN :
       LET r == clientExplainQuery(Sess, q, dbok)
       IN /\ Commit(r.s)
          /\ last' = Call("client.ExplainQuery", Opts(FALSE, q, 0), 1, r.s, r.err, r.res)
  /\ UNCHANGED <<app, client, env, up, gateIn, gateOut, procs>>

\* The connection session: construction, the environment, explicit connect
\* and disconnect, and a data operation behind the connection gate.
Next ==
  \/ New
  \/ NewNilClient
  \/ ServerDown
  \/ ServerUp
  \/ Setenv
  \/ Connect
  \/ Disconnect
  \/ ListDatabases

Spec == Init /\ [][Next]_vars

\* ---------------------------------------------------------- the safety gate
\* The SQL texts the gate is tried on: white space, a leading word in several
\* casings, and a tail.
GatePrefixes == {<<>>, <<" ">>, <<"\t", " ">>, <<"\n">>}
GateWords ==
  {<<>>,
   <<"s", "e", "l", "e", "c", "t">>,
   <<"S", "e", "l", "e", "c", "t">>,
   <<"S", "e", "L", "e", "C", "t">>,
   <<"S", "E", "L", "E", "C", "T">>,
   <<"w", "i", "t", "h">>,
   <<"W", "i", "t", "h">>,
   <<"W", "I", "T", "H">>,
   <<"i", "n", "s", "e", "r", "t">>,
   <<"I", "N", "S", "E", "R", "T">>,
   <<"U", "P", "D", "A", "T", "E">>,
   <<"D", "E", "L", "E", "T", "E">>,
   <<"D", "R", "O", "P">>,
   <<"C", "R", "E", "A", "T", "E">>,
   <<"A", "L", "T", "E", "R">>,
   <<"S", "E", "L", "E", "C">>,
   <<"W", "I", "T">>,
   <<"S", "E", "L", "E", "C", "T", "E", "D">>,
   <<"E", "X", "P", "L", "A", "I", "N">>,
   <<LongS, "e", "l", "e", "c", "t">>,
   <<"w", DotlessI, "t", "h">>,
   <<"-", "-", "S", "E", "L", "E", "C", "T">>}
GateTails == {<<>>, <<" ">>, <<" ", "1">>, <<" ", "*", " ", "f", "r", "o", "m", " ", "t", "\n">>}
GateInputs == {p \o w \o t : p \in GatePrefixes, w \in GateWords, t \in GateTails}

InitGate ==
  /\ Boot
  /\ env = [POSTGRES_URL |-> "", DATABASE_URL |-> ""]
  /\ up = {}
  /\ gateIn \in GateInputs
  /\ gateOut = GateIdle

\* validateQuery(query)
Validate ==
  /\ ~gateOut.done
  /\ gateOut' = [done |-> TRUE, err |-> validateQuery(gateIn)]
  /\ UNCHANGED <<app, client, env, up, hstate, htarget, db, connectionString,
                 dataModified, last, gateIn, procs>>

SpecGate == InitGate /\ [][Validate]_vars

\* The query path: execute_query and explain_query on a session that
\* connects and reconnects from the environment.
NextQuery ==
  \/ New
  \/ NewNilClient
  \/ ServerDown
  \/ ServerUp
  \/ Disconnect
  \/ ExecuteQuery
  \/ ExplainQuery
  \/ ClientExecuteQuery
  \/ ClientExplainQuery

SpecQuery == Init /\ [][NextQuery]_vars

\* --------------------------------------------------- concurrent tool calls
\* Two ListDatabases calls served at once.  Each shared read and write of the
\* client's fields is a step of its own: the code takes no lock.
Proc(p, f) == [procs EXCEPT ![p] = f]

CallStart(p) ==
  /\ app = "ready" /\ client = "impl"
  /\ procs[p].pc = "idle"
  /\ procs' = Proc(p, [IdleProc EXCEPT !.pc = "ping"])
  /\ last' = Idle
  /\ UNCHANGED <<app, client, env, up, hstate, htarget, db, connectionString,
                 dataModified, gateIn, gateOut>>

\* ensureConnection: a.client.Ping() reads c.db and pings it.
PingStep(p) ==
  /\ procs[p].pc = "ping"
  /\ procs' = Proc(p, IF db # 0 /\ Alive(Sess, db)
                       THEN [procs[p] EXCEPT !.pc = "query"]
                       ELSE [procs[p] EXCEPT !.pc = "connect", !.unusable = TRUE])
  /\ UNCHANGED <<app, client, env, up, hstate, htarget, db, connectionString,
                 dataModified, last, gateIn, gateOut>>

\* tryConnect up to sql.Open and the ping of the new handle.
OpenStep(p) ==
  /\ procs[p].pc = "connect"
  /\ Room
  /\ IF EnvConnectionString \in up
     THEN /\ hstate' = [hstate EXCEPT ![NewHandle(Sess)] = "open"]
          /\ htarget' = [htarget EXCEPT ![NewHandle(Sess)] = EnvConnectionString]
          /\ procs' = Proc(p, [procs[p] EXCEPT !.pc = "setdb", !.new = NewHandle(Sess),
                                               !.cs = EnvConnectionString])
     ELSE /\ procs' = Proc(p, [procs[p] EXCEPT !.pc = "done", !.err = <<ErrConnectionRequired>>])
          /\ UNCHANGED <<hstate, htarget>>
  /\ UNCHANGED <<app, client, env, up, db, connectionString, dataModified, last,
                 gateIn, gateOut>>

\* c.db = db
SetDb(p) ==
  /\ procs[p].pc = "setdb"
  /\ db' = procs[p].new
  /\ procs' = Proc(p, [procs[p] EXCEPT !.pc = "setcs", !.installed = procs[p].new])
  /\ UNCHANGED <<app, client, env, up, hstate, htarget, connectionString,
                 dataModified, last, gateIn, gateOut>>

\* c.connectionString = connectionString
SetCs(p) ==
  /\ procs[p].pc = "setcs"
  /\ connectionString' = procs[p].cs
  /\ procs' = Proc(p, [procs[p] EXCEPT !.pc = "query"])
  /\ UNCHANGED <<app, client, env, up, hstate, htarget, db, dataModified, last,
                 gateIn, gateOut>>

\* client.ListDatabases: c.db is read and the query starts on that handle.
QueryStart(p) ==
  /\ procs[p].pc = "query"
  /\ procs' = Proc(p, [procs[p] EXCEPT !.pc = "running", !.h = db])
  /\ UNCHANGED <<app, client, env, up, hstate, htarget, db, connectionString,
                 dataModified, last, gateIn, gateOut>>

\* The query returns; stale records that c.db was replaced while it ran.
QueryEnd(p) ==
  /\ procs[p].pc = "running"
  /\ procs' = Proc(p, [procs[p] EXCEPT !.pc = "done", !.used = procs[p].h,
                                       !.stale = (procs[p].h # db),
                                       !.err = IF Alive(Sess, procs[p].h) THEN NoErr
                                               ELSE <<"failed to list databases", DriverError>>])
  /\ UNCHANGED <<app, client, env, up, hstate, htarget, db, connectionString,
                 dataModified, last, gateIn, gateOut>>

\* Both calls have returned.
AllDone == \A p \in Procs : procs[p].pc = "done"
Reset ==
  /\ AllDone
  /\ procs' = [p \in Procs |-> IdleProc]
  /\ UNCHANGED <<app, client, env, up, hstate, htarget, db, connectionString,
                 dataModified, last, gateIn, gateOut>>

NextConc ==
  \/ New
  \/ ServerDown
  \/ ServerUp
  \/ Disconnect
  \/ Reset
  \/ \E p \in Procs :
       \/ CallStart(p)
       \/ PingStep(p)
       \/ OpenStep(p)
       \/ SetDb(p)
       \/ SetCs(p)
       \/ QueryStart(p)
       \/ QueryEnd(p)

SpecConc == Init /\ [][NextConc]_vars

\* ------------------------------------------------------ catalog operations
DefaultSchema == "public"
ErrTableRequired == "ErrTableRequired"
ErrTableNotFound == "ErrTableNotFound"

\* The schema and table arguments the catalog calls are made with.
Schemas == {"", "public", "nope"}
Tables == {"", "t"}

\* The statement of a catalog query with its bind arguments.
Stmt(name, schema, table) == <<name, schema, table>>
\* A list result: the items in the order scanned.
ListResult(items) == [columns |-> <<>>, rows |-> items, row_count |-> Len(items)]
\* A mutated default that passes the empty schema on.
SchemaKept(schema) == schema
\* if schema == "" { schema = DefaultSchema }
SchemaOrDefault(schema) == IF schema = "" THEN DefaultSchema ELSE schema

\* information_schema.columns for one table, ORDER BY ordinal_position.
ColumnInfo(i) == [Name |-> i, ordinal |-> i]
ColumnRows(n) == [i \in 1..n |-> ColumnInfo(i)]

\* A mutated DescribeTable that returns the empty column list of a table
\* that does not exist.
clientDescribeTableNoCheck(s, schema, table, dbok, n) ==
  IF s.db = 0
  THEN Res(s, <<ErrNoDatabaseConnection>>, NoResult)
  ELSE LET q == runQuery(s, Stmt("columns", SchemaOrDefault(schema), table), dbok)
       IN IF ~Executed(s, dbok)
          THEN Res(q, <<"failed to describe table", DriverError>>, NoResult)
          ELSE Res(q, NoErr, ListResult(ColumnRows(n)))

\* PostgreSQLClientImpl.DescribeTable; the database yields n columns.
clientDescribeTable(s, schema, table, dbok, n) ==
  IF s.db = 0
  THEN Res(s, <<ErrNoDatabaseConnection>>, NoResult)
  ELSE LET q == runQuery(s, Stmt("columns", SchemaOrDefault(schema), table), dbok)
       IN IF ~Executed(s, dbok)
          THEN Res(q, <<"failed to describe table", DriverError>>, NoResult)
          ELSE LET f == Fetch(q, n, "failed to scan column row",
                              "failed to iterate column rows", ListResult(ColumnRows(n)))
               IN IF f.err = NoErr /\ n = 0
                  THEN Res(q, <<"table schema.table", ErrTableNotFound>>, NoResult)
                  ELSE f

TableInfo(schema, name, type, rowCount, size) ==
  [Schema |-> schema, Name |-> name, Type |-> type, RowCount |-> rowCount, Size |-> size]

\* What the database answers to GetTableStats: the row of
\* pg_stat_user_tables (valid) with n_tup_ins - n_tup_del (val), the exact
\* COUNT(*) (count) and whether the count statement succeeds (countOk).
NoStats == [valid |-> FALSE, val |-> 0]
Estimates == {NoStats} \cup {[valid |-> TRUE, val |-> v] : v \in {-1, 0, 1}}
StatsAnswer(est, count, countOk) == [est |-> est, count |-> count, countOk |-> countOk]
StatsAnswers ==
  {StatsAnswer(e, MaxRows, TRUE) : e \in Estimates}
    \cup {StatsAnswer(NoStats, 0, TRUE), StatsAnswer(NoStats, 0, FALSE),
          StatsAnswer([valid |-> TRUE, val |-> 0], 0, FALSE),
          StatsAnswer([valid |-> TRUE, val |-> 1], 0, FALSE)}

\* A mutated GetTableStats that always trusts the estimate.
clientGetTableStatsNoFallback(s, schema, table, dbok, ans) ==
  IF s.db = 0
  THEN Res(s, <<ErrNoDatabaseConnection>>, NoResult)
  ELSE LET sch == SchemaOrDefault(schema)
           q1 == runQuery(s, Stmt("stats", sch, table), dbok)
       IN IF ~Executed(s, dbok)
          THEN Res(q1, <<"failed to get table stats", DriverError>>, NoResult)
          ELSE Res(q1, NoErr, ListResult(<<TableInfo(sch, table, "", ans.est.val, "")>>))

\* PostgreSQLClientImpl.GetTableStats
clientGetTableStats(s, schema, table, dbok, ans) ==
  IF s.db = 0
  THEN Res(s, <<ErrNoDatabaseConnection>>, NoResult)
  ELSE LET sch == SchemaOrDefault(schema)
           q1 == runQuery(s, Stmt("stats", sch, table), dbok)
       IN IF ~Executed(s, dbok) \/ s.fault \in {"scan", "rows"}
          THEN Res(q1, <<"failed to get table stats", DriverError>>, NoResult)
          ELSE IF ~ans.est.valid \/ ans.est.val = 0
               THEN LET q2 == runQuery(q1, Stmt("count", sch, table), ans.countOk)
                    IN IF ~Executed(q1, ans.countOk)
                       THEN Res(q2, <<"failed to get actual row count", DriverError>>, NoResult)
                       ELSE Res(q2, NoErr, ListResult(<<TableInfo(sch, table, "", ans.count, "")>>))
               ELSE Res(q1, NoErr, ListResult(<<TableInfo(sch, table, "", ans.est.val, "")>>))

\* The text PostgreSQL prints for a name[] value (array_out): elements
\* joined by commas inside braces; an element that is empty or holds a brace,
\* a comma, a quote, a backslash or a space is double-quoted, with quote and
\* backslash escaped.
ArrayOut(names) ==
  LET NeedsQuote(name) ==
        name = <<>> \/ \E i \in 1..Len(name) : name[i] \in {"{", "}", ",", "\"", "\\", " "}
      RECURSIVE Escaped(_)
      Escaped(name) ==
        IF name = <<>> THEN <<>>
        ELSE (IF Head(name) \in {"\"", "\\"} THEN <<"\\", Head(name)>> ELSE <<Head(name)>>)
               \o Escaped(Tail(name))
      ArrayElem(name) ==
        IF NeedsQuote(name) THEN <<"\"">> \o Escaped(name) \o <<"\"">> ELSE name
      RECURSIVE JoinElems(_)
      JoinElems(ns) ==
        IF ns = <<>> THEN <<>>
        ELSE IF Len(ns) = 1 THEN ArrayElem(ns[1])
             ELSE ArrayElem(Head(ns)) \o <<",">> \o JoinElems(Tail(ns))
  IN <<"{">> \o JoinElems(names) \o <<"}">>

\* strings.Trim(s, cutset)
Trim(s, cutset) ==
  LET RECURSIVE TrimLeftSet(_)
      TrimLeftSet(x) == IF x # <<>> /\ Head(x) \in cutset THEN TrimLeftSet(Tail(x)) ELSE x
      RECURSIVE TrimRightSet(_)
      TrimRightSet(x) ==
        IF x # <<>> /\ x[Len(x)] \in cutset THEN TrimRightSet(SubSeq(x, 1, Len(x) - 1)) ELSE x
  IN TrimRightSet(TrimLeftSet(s))

\* strings.Split(s, sep) for a one-rune separator.
RECURSIVE Split(_, _)
Split(s, sep) ==
  IF \E i \in 1..Len(s) : s[i] = sep
  THEN LET i == CHOOSE k \in 1..Len(s) : s[k] = sep /\ \A j \in 1..(k - 1) : s[j] # sep
       IN <<SubSeq(s, 1, i - 1)>> \o Split(SubSeq(s, i + 1, Len(s)), sep)
  ELSE <<s>>

\* pq.StringArray.Scan: the printed array parsed element by element, quotes
\* and escapes undone.
ScanStringArray(text) ==
  LET RECURSIVE ParseElems(_, _, _, _)
      ParseElems(rest, cur, inQuote, acc) ==
        IF rest = <<>> THEN Append(acc, cur)
        ELSE LET c == Head(rest)
             IN IF inQuote
                THEN IF c = "\\" /\ Len(rest) > 1
                     THEN ParseElems(Tail(Tail(rest)), Append(cur, rest[2]), TRUE, acc)
                     ELSE IF c = "\"" THEN ParseElems(Tail(rest), cur, FALSE, acc)
                          ELSE ParseElems(Tail(rest), Append(cur, c), TRUE, acc)
                ELSE IF c = "\"" THEN ParseElems(Tail(rest), cur, TRUE, acc)
                     ELSE IF c = "," THEN ParseElems(Tail(rest), <<>>, FALSE, Append(acc, cur))
                          ELSE ParseElems(Tail(rest), Append(cur, c), FALSE, acc)
      inner == SubSeq(text, 2, Len(text) - 1)
  IN IF inner = <<>> THEN <<>> ELSE ParseElems(inner, <<>>, FALSE, <<>>)

\* Column names of the indexes the database holds.
IndexColumnLists ==
  LET id == <<"i", "d">>
  IN {<<id>>, <<id, <<"n", "a", "m", "e">>>>, <<<<"a", ",", "b", ",", "c">>, id>>,
      <<<<"{", "x", "}">>, id>>, <<<<"a", " ", "b">>, id>>}
\* An IndexInfo: the index and its columns.
IndexRow(name, cols) == [Name |-> name, Columns |-> cols]

\* A mutated aggregate: ORDER BY a.attnum.
ArrayAggByAttnum(attr, indkey) ==
  LET A == {k \in DOMAIN attr : \E i \in DOMAIN indkey : indkey[i] = k}
  IN [n \in 1..Cardinality(A) |-> attr[CHOOSE k \in A : Cardinality({j \in A : j < k}) = n - 1]]

\* array_agg(a.attname ORDER BY array_position(ix.indkey, a.attnum)) over the
\* attributes with a.attnum = ANY(ix.indkey): attr[k] is the name of attribute
\* number k, indkey the index key (0 stands for an expression).  An attribute
\* joins once however often the key names it.
ArrayAgg(attr, indkey) ==
  LET A == {k \in DOMAIN attr : \E i \in DOMAIN indkey : indkey[i] = k}
      pos(k) == CHOOSE i \in DOMAIN indkey :
                  indkey[i] = k /\ \A j \in DOMAIN indkey : indkey[j] = k => i <= j
  IN [n \in 1..Cardinality(A) |->
        attr[CHOOSE k \in A : Cardinality({j \in A : pos(j) < pos(k)}) = n - 1]]

\* An index of a table as the catalogs hold it, with the columns the
\* statement aggregates for it.
IndexDef(name, attr, indkey) ==
  [Name |-> name, Columns |-> ArrayAgg(attr, indkey), attr |-> attr, indkey |-> indkey]
\* An index on the columns cols of a table that has just these attributes.
IndexOn(name, cols) == IndexDef(name, cols, [i \in 1..Len(cols) |-> i])
\* The rows of the statement, ORDER BY i.relname: an index none of whose key
\* entries is an attribute joins with nothing and has no row.
IndexAnswer(defs) ==
  LET HasColumns(d) == d.Columns # <<>>
  IN SelectSeq(defs, HasColumns)

\* A table whose attributes are first_name, last_name, email in that order,
\* and the keys of its indexes.
PersonAttrs ==
  <<(<<"f", "i", "r", "s", "t", "_", "n", "a", "m", "e">>),
    (<<"l", "a", "s", "t", "_", "n", "a", "m", "e">>),
    (<<"e", "m", "a", "i", "l">>)>>
IndKeys == {<<2, 1, 3>>, <<3, 2>>, <<2, 0, 1>>, <<1, 2, 1>>, <<0>>}
IndexLists ==
  {<<>>} \cup {<<IndexOn("ix1", c)>> : c \in IndexColumnLists}
    \cup {<<IndexOn("ix1", <<<<"i", "d">>>>),
            IndexOn("ix2", <<<<"n", "a", "m", "e">>, <<"i", "d">>>>)>>}
    \cup {IndexAnswer(<<IndexDef("ix1", PersonAttrs, k)>>) : k \in IndKeys}

\* IndexInfo as client.go builds it: the printed array trimmed of braces and
\* split on commas.
SplitColumns(columnsStr) ==
  LET trimmed == Trim(columnsStr, {"{", "}"})
  IN IF trimmed # <<>> THEN Split(trimmed, ",") ELSE <<>>

\* PostgreSQLClientImpl.ListIndexes of part_005 (columns scanned into a
\* pq.StringArray).
clientListIndexesStringArray(s, schema, table, dbok, idx) ==
  IF s.db = 0
  THEN Res(s, <<ErrNoDatabaseConnection>>, NoResult)
  ELSE LET q == runQuery(s, Stmt("indexes", SchemaOrDefault(schema), table), dbok)
       IN IF ~Executed(s, dbok)
          THEN Res(q, <<"failed to list indexes", DriverError>>, NoResult)
          ELSE Fetch(q, Len(idx), "failed to scan index row", "failed to iterate index rows",
                     ListResult([i \in 1..Len(idx) |->
                       IndexRow(idx[i].Name, ScanStringArray(ArrayOut(idx[i].Columns)))]))

\* PostgreSQLClientImpl.ListIndexes of client.go (columns scanned into a
\* string and split).
clientListIndexes(s, schema, table, dbok, idx) ==
  IF s.db = 0
  THEN Res(s, <<ErrNoDatabaseConnection>>, NoResult)
  ELSE LET q == runQuery(s, Stmt("indexes", SchemaOrDefault(schema), table), dbok)
       IN IF ~Executed(s, dbok)
          THEN Res(q, <<"failed to list indexes", DriverError>>, NoResult)
          ELSE Fetch(q, Len(idx), "failed to scan index row", "failed to iterate index rows",
                     ListResult([i \in 1..Len(idx) |->
                       IndexRow(idx[i].Name, SplitColumns(ArrayOut(idx[i].Columns)))]))

\* A mutated DescribeTable that validates the table before the connection.
AppDescribeTableParamsFirst(s, schema, table, dbok, n) ==
  IF table = ""
  THEN Res(s, <<ErrTableRequired>>, NoResult)
  ELSE LET e == ensureConnection(s)
       IN IF e.err # NoErr
          THEN Res(e.s, e.err, NoResult)
          ELSE LET r == clientDescribeTable(e.s, SchemaOrDefault(schema), table, dbok, n)
               IN IF r.err # NoErr THEN Res(r.s, Wrap("failed to describe table", r.err), NoResult)
                                   ELSE r

\* App.DescribeTable
AppDescribeTable(s, schema, table, dbok, n) ==
  LET e == ensureConnection(s)
  IN IF e.err # NoErr
     THEN Res(e.s, e.err, NoResult)
     ELSE IF table = ""
          THEN Res(e.s, <<ErrTableRequired>>, NoResult)
          ELSE LET r == clientDescribeTable(e.s, SchemaOrDefault(schema), table, dbok, n)
               IN IF r.err # NoErr THEN Res(r.s, Wrap("failed to describe table", r.err), NoResult)
                                   ELSE r

\* App.GetTableStats
AppGetTableStats(s, schema, table, dbok, ans) ==
  LET e == ensureConnection(s)
  IN IF e.err # NoErr
     THEN Res(e.s, e.err, NoResult)
     ELSE IF table = ""
          THEN Res(e.s, <<ErrTableRequired>>, NoResult)
          ELSE LET r == clientGetTableStats(e.s, SchemaOrDefault(schema), table, dbok, ans)
               IN IF r.err # NoErr THEN Res(r.s, Wrap("failed to get table stats", r.err), NoResult)
                                   ELSE r

\* App.ListIndexes
AppListIndexes(s, schema, table, dbok, idx) ==
  LET e == ensureConnection(s)
  IN IF e.err # NoErr
     THEN Res(e.s, e.err, NoResult)
     ELSE IF table = ""
          THEN Res(e.s, <<ErrTableRequired>>, NoResult)
          ELSE LET r == clientListIndexes(e.s, SchemaOrDefault(schema), table, dbok, idx)
               IN IF r.err # NoErr THEN Res(r.s, Wrap("failed to list indexes", r.err), NoResult)
                                   ELSE r

\* The record of a catalog call.
CatalogCall(op, schema, table, n, r) ==
  [Call(op, NoOpts, n, r.s, r.err, r.res) EXCEPT !.schema = schema, !.table = table]

\* App.DescribeTable(schema, table)
DescribeTable ==
  /\ Ready /\ Room
  /\ \E schema \in Schemas, table \in Tables, dbok \in BOOLEAN :
     \E n \in IF dbok /\ table # "" THEN 0..MaxRows ELSE {0} :
     \E fault \in FaultsIf(dbok /\ table # "" /\ schema = "public" /\ n = MaxRows) :
       LET r == AppDescribeTable(Faulty(fault), schema, table, dbok, n)
       IN /\ Commit(r.s)
          /\ last' = CatalogCall("DescribeTable", schema, table, n, r)
  /\ UNCHANGED <<app, client, env, up, gateIn, gateOut, procs>>

\* App.GetTableStats(schema, table); answer records what the database said.
GetTableStats ==
  /\ Ready /\ Room
  /\ \E schema \in Schemas, table \in Tables, dbok \in BOOLEAN :
     \E ans \in IF dbok /\ table # "" THEN StatsAnswers ELSE {StatsAnswer(NoStats, 0, FALSE)} :
     \E fault \in FaultsIf(dbok /\ table # "" /\ schema = "public" /\ ans.countOk /\ ans.count = MaxRows) :
       LET r == AppGetTableStats(Faulty(fault), schema, table, dbok, ans)
       IN /\ Commit(r.s)
          /\ last' = [CatalogCall("GetTableStats", schema, table, ans.count, r)
                        EXCEPT !.query = <<ans>>]
  /\ UNCHANGED <<app, client, env, up, gateIn, gateOut, procs>>

\* App.ListIndexes(schema, table); query records the rows the database held.
ListIndexes ==
  /\ Ready /\ Room
  /\ \E schema \in Schemas, table \in Tables, dbok \in BOOLEAN :
     \E idx \in IF dbok /\ table # "" THEN IndexLists ELSE {<<>>} :
     \E fault \in FaultsIf(dbok /\ table # "" /\ schema = "public" /\ Len(idx) = 2) :
       LET r == AppListIndexes(Faulty(fault), schema, table, dbok, idx)
       IN /\ Commit(r.s)
          /\ last' = [CatalogCall("ListIndexes", schema, table, Len(idx), r)
                        EXCEPT !.query = idx]
  /\ UNCHANGED <<app, client, env, up, gateIn, gateOut, procs>>

\* Parameter validation against the connection gate: the operations that
\* require a table or a query.
NextParams ==
  \/ New
  \/ NewNilClient
  \/ ServerDown
  \/ ServerUp
  \/ DescribeTable
  \/ GetTableStats
  \/ ListIndexes
  \/ ExecuteQuery
  \/ ExplainQuery

SpecParams == Init /\ [][NextParams]_vars

\* ------------------------------------------------------------ table listing
\* A relation of a schema as the database holds it: a table or a view, with
\* the answers to the statistics statements about it.  A view has no row in
\* pg_stat_user_tables.
Rel(type, ans) == [Type |-> type, ans |-> ans]
RelKinds ==
  {Rel("table", StatsAnswer([valid |-> TRUE, val |-> v], MaxRows, TRUE)) : v \in {0, 1}}
    \cup {Rel("table", StatsAnswer(NoStats, 0, FALSE)),
          Rel("view", StatsAnswer(NoStats, MaxRows, TRUE))}
\* The relations in ORDER BY tablename order; the i-th is named RelNames[i].
RelNames == <<"r1", "r2">>
RelLists == UNION {[1..n -> RelKinds] : n \in 0..Len(RelNames)}
\* pg_size_pretty(COALESCE(pg_total_relation_size(...), 0))
RelSize(r) == IF r.Type = "view" THEN "0 bytes" ELSE "8192 bytes"

\* A mutated ListTables that reports an empty schema as an error.
clientListTablesNotFound(s, schema, dbok, rels) ==
  IF s.db = 0
  THEN Res(s, <<ErrNoDatabaseConnection>>, NoResult)
  ELSE LET sch == SchemaOrDefault(schema)
           q == runQuery(s, Stmt("tables", sch, ""), dbok)
       IN IF ~Executed(s, dbok)
          THEN Res(q, <<"failed to list tables", DriverError>>, NoResult)
          ELSE IF rels = <<>>
               THEN Res(q, <<ErrTableNotFound>>, NoResult)
               ELSE Res(q, NoErr,
                        ListResult([i \in 1..Len(rels) |->
                          TableInfo(sch, RelNames[i], rels[i].Type, 0, "")]))

\* PostgreSQLClientImpl.ListTables
clientListTables(s, schema, dbok, rels) ==
  IF s.db = 0
  THEN Res(s, <<ErrNoDatabaseConnection>>, NoResult)
  ELSE LET sch == SchemaOrDefault(schema)
           q == runQuery(s, Stmt("tables", sch, ""), dbok)
       IN IF ~Executed(s, dbok)
          THEN Res(q, <<"failed to list tables", DriverError>>, NoResult)
          ELSE Fetch(q, Len(rels), "failed to scan table row", "failed to iterate table rows",
                     ListResult([i \in 1..Len(rels) |->
                       TableInfo(sch, RelNames[i], rels[i].Type, 0, "")]))

\* PostgreSQLClientImpl.ListSchemas; the database holds n schemas.
clientListSchemas(s, dbok, n) ==
  IF s.db = 0
  THEN Res(s, <<ErrNoDatabaseConnection>>, NoResult)
  ELSE LET q == runQuery(s, Stmt("schemas", "", ""), dbok)
       IN IF ~Executed(s, dbok)
          THEN Res(q, <<"failed to list schemas", DriverError>>, NoResult)
          ELSE Fetch(q, n, "failed to scan schema row", "failed to iterate schema rows",
                     ListResult([i \in 1..n |-> [Name |-> i]]))

\* App.ListSchemas
AppListSchemas(s, dbok, n) ==
  LET e == ensureConnection(s)
  IN IF e.err # NoErr
     THEN Res(e.s, e.err, NoResult)
     ELSE LET r == clientListSchemas(e.s, dbok, n)
          IN IF r.err # NoErr THEN Res(r.s, Wrap("failed to list schemas", r.err), NoResult)
                              ELSE r

\* *ListTablesOptions
TableOpts(isNil, schema, includeSize) ==
  [isNil |-> isNil, Schema |-> schema, IncludeSize |-> includeSize]

\* for _, table := range tables { stats, err := a.client.GetTableStats(...) }:
\* a table whose statistics fail is left as listed.
RECURSIVE statsLoop(_, _, _, _)
statsLoop(s, tables, rels, i) ==
  IF i > Len(tables)
  THEN [s |-> s, rows |-> tables]
  ELSE LET r == clientGetTableStats(s, tables[i].Schema, tables[i].Name, TRUE, rels[i].ans)
       IN IF r.err # NoErr
          THEN statsLoop(r.s, tables, rels, i + 1)
          ELSE statsLoop(r.s,
                         [tables EXCEPT ![i].RowCount = r.res.rows[1].RowCount,
                                        ![i].Size = r.res.rows[1].Size],
                         rels, i + 1)

\* A mutated ListTables that fails the listing when one table's statistics
\* fail.
AppListTablesFailFast(s, opts, dbok, rels) ==
  LET e == ensureConnection(s)
      schema == IF ~opts.isNil /\ opts.Schema # "" THEN opts.Schema ELSE DefaultSchema
  IN IF e.err # NoErr
     THEN Res(e.s, e.err, NoResult)
     ELSE LET r == clientListTables(e.s, schema, dbok, rels)
          IN IF r.err # NoErr
             THEN Res(r.s, Wrap("failed to list tables", r.err), NoResult)
             ELSE IF ~opts.isNil /\ opts.IncludeSize
                  THEN LET l == statsLoop(r.s, r.res.rows, rels, 1)
                       IN IF \E i \in 1..Len(rels) :
                               clientGetTableStats(r.s, schema, RelNames[i], TRUE, rels[i].ans).err # NoErr
                          THEN Res(l.s, <<"failed to get table stats", DriverError>>, NoResult)
                          ELSE Res(l.s, NoErr, ListResult(l.rows))
                  ELSE r

\* App.ListTables
AppListTables(s, opts, dbok, rels) ==
  LET e == ensureConnection(s)
      schema == IF ~opts.isNil /\ opts.Schema # "" THEN opts.Schema ELSE DefaultSchema
  IN IF e.err # NoErr
     THEN Res(e.s, e.err, NoResult)
     ELSE LET r == clientListTables(e.s, schema, dbok, rels)
          IN IF r.err # NoErr
             THEN Res(r.s, Wrap("failed to list tables", r.err), NoResult)
             ELSE IF ~opts.isNil /\ opts.IncludeSize
                  THEN LET l == statsLoop(r.s, r.res.rows, rels, 1)
                       IN Res(l.s, NoErr, ListResult(l.rows))
                  ELSE r

\* The fallback loop of ListTablesWithStats: a table (not a view) whose
\* row count is 0 is counted; a count that fails is skipped.
RECURSIVE countLoop(_, _, _, _)
countLoop(s, tables, rels, i) ==
  IF i > Len(tables)
  THEN [s |-> s, rows |-> tables]
  ELSE IF tables[i].RowCount = 0 /\ tables[i].Type = "table"
       THEN LET q == runQuery(s, Stmt("count", tables[i].Schema, tables[i].Name), rels[i].ans.countOk)
            IN IF ~Executed(s, rels[i].ans.countOk)
               THEN countLoop(q, tables, rels, i + 1)
               ELSE countLoop(q, [tables EXCEPT ![i].RowCount = rels[i].ans.count], rels, i + 1)
       ELSE countLoop(s, tables, rels, i + 1)

\* PostgreSQLClientImpl.ListTablesWithStats (part_005): one statement with
\* COALESCE(n_tup_ins - n_tup_del, 0) and the printed size, then the fallback.
clientListTablesWithStats(s, schema, dbok, rels) ==
  IF s.db = 0
  THEN Res(s, <<ErrNoDatabaseConnection>>, NoResult)
  ELSE LET sch == SchemaOrDefault(schema)
           q == runQuery(s, Stmt("tables with stats", sch, ""), dbok)
           listed == [i \in 1..Len(rels) |->
                        TableInfo(sch, RelNames[i], rels[i].Type,
                                  IF rels[i].ans.est.valid THEN rels[i].ans.est.val ELSE 0,
                                  RelSize(rels[i]))]
       IN IF ~Executed(s, dbok)
          THEN Res(q, <<"failed to list tables with stats", DriverError>>, NoResult)
          ELSE LET f == Fetch(q, Len(rels), "failed to scan table row with stats",
                              "failed to iterate table rows with stats", NoResult)
                   l == countLoop(q, listed, rels, 1)
               IN IF f.err # NoErr THEN f ELSE Res(l.s, NoErr, ListResult(l.rows))

\* The options a caller passes to ListTables.
TableOptions ==
  {TableOpts(TRUE, "", FALSE), TableOpts(FALSE, "", FALSE), TableOpts(FALSE, "nope", TRUE)}
    \cup {TableOpts(FALSE, "public", size) : size \in BOOLEAN}

\* The relations a schema can hold: none in a schema that does not exist.
RelsOf(schema, dbok) == IF dbok /\ schema # "nope" THEN RelLists ELSE {<<>>}

\* App.ListSchemas()
ListSchemas ==
  /\ Ready /\ Room
  /\ \E dbok \in BOOLEAN :
     \E n \in IF dbok THEN 0..MaxRows ELSE {0} :
     \E fault \in FaultsIf(dbok /\ n = MaxRows) :
       LET r == AppListSchemas(Faulty(fault), dbok, n)
       IN /\ Commit(r.s)
          /\ last' = Call("ListSchemas", NoOpts, n, r.s, r.err, r.res)
  /\ UNCHANGED <<app, client, env, up, gateIn, gateOut, procs>>

\* App.ListTables(opts); query records the relations the database held.
ListTables ==
  /\ Ready /\ Room
  /\ \E opts \in TableOptions, dbok \in BOOLEAN :
     \E rels \in RelsOf(opts.Schema, dbok) :
     \E fault \in FaultsIf(dbok /\ opts.isNil /\ Len(rels) = 1) :
       LET r == AppListTables(Faulty(fault), opts, dbok, rels)
       IN /\ Commit(r.s)
          /\ last' = [Call("ListTables", NoOpts, Len(rels), r.s, r.err, r.res)
                        EXCEPT !.query = rels, !.schema = opts.Schema,
                               !.isNil = opts.isNil,
                               !.includeSize = opts.IncludeSize]
  /\ UNCHANGED <<app, client, env, up, gateIn, gateOut, procs>>

\* client.ListTablesWithStats(schema) called on the client itself.
ClientListTablesWithStats ==
  /\ Ready /\ client = "impl"
  /\ \E schema \in Schemas, dbok \in BOOLEAN :
     \E rels \in RelsOf(schema, dbok) :
       LET r == clientListTablesWithStats(Sess, schema, dbok, rels)
       IN /\ Commit(r.s)
          /\ last' = [Call("client.ListTablesWithStats", NoOpts, Len(rels), r.s, r.err, r.res)
                        EXCEPT !.query = rels, !.schema = schema]
  /\ UNCHANGED <<app, client, env, up, gateIn, gateOut, procs>>

\* The list-returning operations.
NextCatalog ==
  \/ New
  \/ NewNilClient
  \/ ServerDown
  \/ ServerUp
  \/ ListDatabases
  \/ ListSchemas
  \/ ListTables
  \/ ListIndexes
  \/ ClientListTablesWithStats

SpecCatalog == Init /\ [][NextCatalog]_vars

\* The row count of one table and of the listing with statistics.
NextStats ==
  \/ New
  \/ NewNilClient
  \/ ServerDown
  \/ ServerUp
  \/ GetTableStats
  \/ ClientListTablesWithStats

SpecStats == Init /\ [][NextStats]_vars

\* ------------------------------------------------------------ tool handlers
\* v, ok := args[key].(string): the zero value when the assertion fails.
AsString(a, zero) ==
  [ok |-> a.kind = "string", val |-> IF a.kind = "string" THEN a.val ELSE zero]

ToolTableRequired == <<"table must be a non-empty string">>
ToolQueryRequired == <<"query must be a non-empty string">>

\* return mcp.NewToolResultError(text), nil before any App call.
ToolRejected(s, a, text) ==
  [s |-> s, err |-> NoErr, res |-> NoResult,
   tool |-> [arg |-> a, isError |-> TRUE, text |-> text, calls |-> <<>>, goErr |-> NoErr]]

\* A mutated handler that returns the App error as its Go error.
ToolReturnedGoError(r, a, op, msg, fmtMsg) ==
  [s |-> r.s, err |-> r.err, res |-> r.res,
   tool |-> [arg |-> a, isError |-> FALSE, text |-> <<>>, calls |-> <<op>>, goErr |-> r.err]]

\* The handler after its App call r: the error text, the text of a failed
\* json.Marshal, or the marshalled value; the Go error is nil in each case.
ToolReturned(r, a, op, msg, fmtMsg) ==
  [s |-> r.s, err |-> r.err,
   res |-> IF r.err = NoErr /\ r.s.fault = "marshal" THEN NoResult ELSE r.res,
   tool |-> [arg |-> a, isError |-> r.err # NoErr \/ r.s.fault = "marshal",
             text |-> IF r.err # NoErr THEN <<msg>> \o r.err
                      ELSE IF r.s.fault = "marshal" THEN <<fmtMsg>> ELSE <<"json">>,
             calls |-> <<op>>, goErr |-> NoErr]]

\* schema := "public"; a non-empty string argument replaces it.
ToolSchema(a) ==
  IF AsString(a, "").ok /\ AsString(a, "").val # "" THEN AsString(a, "").val ELSE "public"

\* describe_table without the argument test.
toolDescribeTableUnchecked(s, args, dbok, n) ==
  ToolReturned(AppDescribeTable(s, ToolSchema(args.schema), AsString(args.table, "").val, dbok, n),
               args.table, "DescribeTable", "Failed to describe table",
                       "Failed to format table description response")

toolDescribeTable(s, args, dbok, n) ==
  LET table == AsString(args.table, "")
  IN IF ~table.ok \/ table.val = ""
     THEN ToolRejected(s, args.table, ToolTableRequired)
     ELSE ToolReturned(AppDescribeTable(s, ToolSchema(args.schema), table.val, dbok, n),
                       args.table, "DescribeTable", "Failed to describe table",
                       "Failed to format table description response")

toolListIndexes(s, args, dbok, idx) ==
  LET table == AsString(args.table, "")
  IN IF ~table.ok \/ table.val = ""
     THEN ToolRejected(s, args.table, ToolTableRequired)
     ELSE ToolReturned(AppListIndexes(s, ToolSchema(args.schema), table.val, dbok, idx),
                       args.table, "ListIndexes", "Failed to list indexes",
                       "Failed to format indexes response")

toolGetTableStats(s, args, dbok, ans) ==
  LET table == AsString(args.table, "")
  IN IF ~table.ok \/ table.val = ""
     THEN ToolRejected(s, args.table, ToolTableRequired)
     ELSE ToolReturned(AppGetTableStats(s, ToolSchema(args.schema), table.val, dbok, ans),
                       args.table, "GetTableStats", "Failed to get table stats",
                       "Failed to format table stats response")

\* list_databases and list_schemas take no argument.
toolListDatabases(s, dbok, n) ==
  ToolReturned(AppListDatabases(s, dbok, n), NoArg, "ListDatabases", "Failed to list databases",
               "Failed to format databases response")
toolListSchemas(s, dbok, n) ==
  ToolReturned(AppListSchemas(s, dbok, n), NoArg, "ListSchemas", "Failed to list schemas",
               "Failed to format schemas response")

\* list_tables: opts.Schema from a non-empty string argument, opts.IncludeSize
\* from a bool argument; the handler requires nothing.
BoolArg(v) == [kind |-> "bool", val |-> v]
toolListTables(s, args, dbok, rels) ==
  LET schema == AsString(args.schema, "")
      opts == TableOpts(FALSE, IF schema.ok /\ schema.val # "" THEN schema.val ELSE "",
                        args.include_size.kind = "bool" /\ args.include_size.val)
  IN ToolReturned(AppListTables(s, opts, dbok, rels), NoArg, "ListTables", "Failed to list tables",
                       "Failed to format tables response")

\* opts.Limit is set only from a float64 argument greater than zero.
toolExecuteQuery(s, args, dbok, n) ==
  LET query == AsString(args.query, <<>>)
      limit == IF args.limit.kind = "number" /\ args.limit.val > 0 THEN args.limit.val ELSE 0
  IN IF ~query.ok \/ query.val = <<>>
     THEN ToolRejected(s, args.query, ToolQueryRequired)
     ELSE ToolReturned(AppExecuteQuery(s, Opts(FALSE, query.val, limit), dbok, n),
                       args.query, "ExecuteQuery", "Failed to execute query",
                       "Failed to format query result")

toolExplainQuery(s, args, dbok) ==
  LET query == AsString(args.query, <<>>)
  IN IF ~query.ok \/ query.val = <<>>
     THEN ToolRejected(s, args.query, ToolQueryRequired)
     ELSE ToolReturned(AppExplainQuery(s, query.val, dbok),
                       args.query, "ExplainQuery", "Failed to explain query",
                       "Failed to format explain result")

\* The arguments a client can send.
TableArgs ==
  [table : {NoArg, StrArg(""), StrArg("t"), NumArg(1)},
   schema : {NoArg, StrArg(""), StrArg("nope"), NumArg(1)}]
QueryArgs ==
  [query : {NoArg, StrArg(<<>>), StrArg(QLower), StrArg(QDrop), NumArg(1)},
   limit : {NoArg, NumArg(1), NumArg(-1), StrArg("1")}]

\* Whether the required argument is a non-empty string.
Usable(a, zero) == a.kind = "string" /\ a.val # zero

ToolCall(op, args, n, r) ==
  [Call(op, NoOpts, n, r.s, r.err, r.res)
     EXCEPT !.tool = r.tool,
            !.sarg = IF "schema" \in DOMAIN args THEN args.schema ELSE NoArg]

\* The describe_table handler.
ToolDescribeTable ==
  /\ Ready /\ Room
  /\ \E args \in TableArgs, dbok \in BOOLEAN :
     \E n \in IF dbok /\ Usable(args.table, "") THEN {0, MaxRows} ELSE {0} :
     \E fault \in MarshalIf(dbok /\ args.schema = NoArg /\ n = MaxRows) :
       LET r == toolDescribeTable(Faulty(fault), args, dbok, n)
       IN /\ Commit(r.s)
          /\ last' = ToolCall("describe_table", args, n, r)
  /\ UNCHANGED <<app, client, env, up, gateIn, gateOut, procs>>

\* The list_indexes handler.
ToolListIndexes ==
  /\ Ready /\ Room
  /\ \E args \in TableArgs, dbok \in BOOLEAN :
     \E idx \in IF dbok /\ Usable(args.table, "") THEN {<<>>, <<IndexOn("pk", <<<<"i", "d">>>>)>>} ELSE {<<>>} :
     \E fault \in MarshalIf(dbok /\ args.schema = NoArg /\ idx # <<>>) :
       LET r == toolListIndexes(Faulty(fault), args, dbok, idx)
       IN /\ Commit(r.s)
          /\ last' = ToolCall("list_indexes", args, Len(idx), r)
  /\ UNCHANGED <<app, client, env, up, gateIn, gateOut, procs>>

\* The get_table_stats handler.
ToolGetTableStats ==
  /\ Ready /\ Room
  /\ \E args \in TableArgs, dbok \in BOOLEAN :
     \E ans \in IF dbok /\ Usable(args.table, "")
                THEN {StatsAnswer(NoStats, 1, TRUE), StatsAnswer(NoStats, 0, FALSE)}
                ELSE {StatsAnswer(NoStats, 0, FALSE)} :
     \E fault \in MarshalIf(dbok /\ args.schema = NoArg /\ ans.countOk) :
       LET r == toolGetTableStats(Faulty(fault), args, dbok, ans)
       IN /\ Commit(r.s)
          /\ last' = ToolCall("get_table_stats", args, ans.count, r)
  /\ UNCHANGED <<app, client, env, up, gateIn, gateOut, procs>>

\* The list_databases handler.
ToolListDatabases ==
  /\ Ready /\ Room
  /\ \E dbok \in BOOLEAN : \E fault \in MarshalIf(dbok) :
       LET r == toolListDatabases(Faulty(fault), dbok, MaxRows)
       IN Commit(r.s) /\ last' = ToolCall("list_databases", [none |-> NoArg], MaxRows, r)
  /\ UNCHANGED <<app, client, env, up, gateIn, gateOut, procs>>

\* The list_schemas handler.
ToolListSchemas ==
  /\ Ready /\ Room
  /\ \E dbok \in BOOLEAN : \E fault \in MarshalIf(dbok) :
       LET r == toolListSchemas(Faulty(fault), dbok, MaxRows)
       IN Commit(r.s) /\ last' = ToolCall("list_schemas", [none |-> NoArg], MaxRows, r)
  /\ UNCHANGED <<app, client, env, up, gateIn, gateOut, procs>>

\* The list_tables handler.
ListTablesArgs ==
  [schema : {NoArg, StrArg(""), StrArg("public"), StrArg("nope"), NumArg(1)},
   include_size : {NoArg, BoolArg(TRUE), StrArg("true")}]
ToolListTables ==
  /\ Ready /\ Room
  /\ \E args \in ListTablesArgs, dbok \in BOOLEAN :
     \E rels \in {rl \in RelsOf(ToolSchema(args.schema), dbok) : Len(rl) <= 1} :
     \E fault \in MarshalIf(dbok /\ args.schema = NoArg /\ Len(rels) = 1) :
       LET r == toolListTables(Faulty(fault), args, dbok, rels)
       IN /\ Commit(r.s)
          /\ last' = [ToolCall("list_tables", args, Len(rels), r) EXCEPT !.query = rels]
  /\ UNCHANGED <<app, client, env, up, gateIn, gateOut, procs>>

\* The execute_query handler.
ToolExecuteQuery ==
  /\ Ready /\ Room
  /\ \E args \in QueryArgs, dbok \in BOOLEAN :
     \E fault \in MarshalIf(dbok /\ args.limit = NoArg /\ args.query = StrArg(QLower)) :
       LET r == toolExecuteQuery(Faulty(fault), args, dbok, MaxRows)
       IN /\ Commit(r.s)
          /\ last' = ToolCall("execute_query", args, MaxRows, r)
  /\ UNCHANGED <<app, client, env, up, gateIn, gateOut, procs>>

\* The explain_query handler.
ToolExplainQuery ==
  /\ Ready /\ Room
  /\ \E args \in QueryArgs, dbok \in BOOLEAN :
     \E fault \in MarshalIf(dbok /\ args.limit = NoArg /\ args.query = StrArg(QLower)) :
       LET r == toolExplainQuery(Faulty(fault), args, dbok)
       IN /\ Commit(r.s)
          /\ last' = ToolCall("explain_query", args, 1, r)
  /\ UNCHANGED <<app, client, env, up, gateIn, gateOut, procs>>

\* The server's tools on a session whose server comes and goes.
NextTools ==
  \/ New
  \/ NewNilClient
  \/ ServerDown
  \/ ServerUp
  \/ ToolListDatabases
  \/ ToolListSchemas
  \/ ToolListTables
  \/ ToolDescribeTable
  \/ ToolListIndexes
  \/ ToolGetTableStats
  \/ ToolExecuteQuery
  \/ ToolExplainQuery

SpecTools == Init /\ [][NextTools]_vars

\* ------------------------------------------------------------ row materializer
\* The values database/sql hands to Scan(&interface{}): int64, float64, bool,
\* nil, string and []byte.
DriverValues ==
  {[kind |-> k, val |-> 1] : k \in {"int64", "float64", "bool", "string", "bytes"}}
    \cup {[kind |-> "nil", val |-> 0], [kind |-> "bytes", val |-> 2]}
\* Result sets of one or two columns and up to MaxRows rows.
RowInputs ==
  UNION {[1..n -> [1..c -> DriverValues]] : n \in 0..MaxRows, c \in 1..2}

InitRows ==
  /\ Boot
  /\ env = [POSTGRES_URL |-> "", DATABASE_URL |-> ""]
  /\ up = {}
  /\ gateIn \in RowInputs
  /\ gateOut = GateIdle

\* processRows(rows)
ProcessRows ==
  /\ ~gateOut.done
  /\ gateOut' = [done |-> TRUE, err |-> NoErr, rows |-> processRows(gateIn)]
  /\ UNCHANGED <<app, client, env, up, hstate, htarget, db, connectionString,
                 dataModified, last, gateIn, procs>>

SpecRows == InitRows /\ [][ProcessRows]_vars

\* ------------------------------------------------------------ client calls
\* The operations of PostgreSQLClientImpl called on the client itself, as the
\* client's tests do, on a client that has or has not connected.
ClientCall(op, n, r) == Call(op, NoOpts, n, r.s, r.err, r.res)

\* PostgreSQLClientImpl.GetCurrentDatabase: one row, the database's name.
CurrentDatabaseSQL == <<"S", "E", "L", "E", "C", "T", " ", "c", "d", "b">>
clientGetCurrentDatabase(s, dbok) ==
  IF s.db = 0
  THEN Res(s, <<ErrNoDatabaseConnection>>, NoResult)
  ELSE IF Executed(s, dbok)
       THEN Res(runQuery(s, CurrentDatabaseSQL, dbok), NoErr, ListResult(<<s.htarget[s.db]>>))
       ELSE Res(runQuery(s, CurrentDatabaseSQL, dbok),
                <<"failed to get current database", DriverError>>, NoResult)

ClientPing ==
  /\ Ready /\ client = "impl"
  /\ LET r == clientPing(Sess)
     IN /\ Commit(r.s)
        /\ last' = Call("client.Ping", NoOpts, 0, r.s, r.err, NoResult)
  /\ UNCHANGED <<app, client, env, up, gateIn, gateOut, procs>>

ClientListDatabases ==
  /\ Ready /\ client = "impl"
  /\ \E dbok \in BOOLEAN :
       LET r == clientListDatabases(Sess, dbok, MaxRows)
       IN Commit(r.s) /\ last' = ClientCall("client.ListDatabases", MaxRows, r)
  /\ UNCHANGED <<app, client, env, up, gateIn, gateOut, procs>>

ClientGetCurrentDatabase ==
  /\ Ready /\ client = "impl"
  /\ \E dbok \in BOOLEAN :
       LET r == clientGetCurrentDatabase(Sess, dbok)
       IN Commit(r.s) /\ last' = ClientCall("client.GetCurrentDatabase", 1, r)
  /\ UNCHANGED <<app, client, env, up, gateIn, gateOut, procs>>

ClientListSchemas ==
  /\ Ready /\ client = "impl"
  /\ \E dbok \in BOOLEAN :
       LET r == clientListSchemas(Sess, dbok, MaxRows)
       IN Commit(r.s) /\ last' = ClientCall("client.ListSchemas", MaxRows, r)
  /\ UNCHANGED <<app, client, env, up, gateIn, gateOut, procs>>

ClientListTables ==
  /\ Ready /\ client = "impl"
  /\ \E schema \in Schemas, dbok \in BOOLEAN :
     \E rels \in {rl \in RelsOf(schema, dbok) : \A i \in DOMAIN rl : rl[i].Type = "view"} :
       LET r == clientListTables(Sess, schema, dbok, rels)
       IN /\ Commit(r.s)
          /\ last' = [ClientCall("client.ListTables", Len(rels), r)
                        EXCEPT !.query = rels, !.schema = schema]
  /\ UNCHANGED <<app, client, env, up, gateIn, gateOut, procs>>

ClientDescribeTable ==
  /\ Ready /\ client = "impl"
  /\ \E schema \in Schemas, dbok \in BOOLEAN :
     \E n \in IF dbok THEN {0, MaxRows} ELSE {0} :
       LET r == clientDescribeTable(Sess, schema, "t", dbok, n)
       IN /\ Commit(r.s)
          /\ last' = [ClientCall("client.DescribeTable", n, r)
                        EXCEPT !.schema = schema, !.table = "t"]
  /\ UNCHANGED <<app, client, env, up, gateIn, gateOut, procs>>

ClientGetTableStats ==
  /\ Ready /\ client = "impl"
  /\ \E schema \in Schemas, dbok \in BOOLEAN :
     \E ans \in IF dbok THEN {a \in StatsAnswers : a.countOk} ELSE {StatsAnswer(NoStats, 0, FALSE)} :
       LET r == clientGetTableStats(Sess, schema, "t", dbok, ans)
       IN /\ Commit(r.s)
          /\ last' = [ClientCall("client.GetTableStats", 1, r)
                        EXCEPT !.query = <<ans>>, !.schema = schema, !.table = "t"]
  /\ UNCHANGED <<app, client, env, up, gateIn, gateOut, procs>>

ClientListIndexes ==
  /\ Ready /\ client = "impl"
  /\ \E schema \in Schemas, dbok \in BOOLEAN :
     \E idx \in IF dbok THEN IndexLists ELSE {<<>>} :
       LET r == clientListIndexes(Sess, schema, "t", dbok, idx)
       IN /\ Commit(r.s)
          /\ last' = [ClientCall("client.ListIndexes", Len(idx), r)
                        EXCEPT !.query = idx, !.schema = schema, !.table = "t"]
  /\ UNCHANGED <<app, client, env, up, gateIn, gateOut, procs>>

NextClient ==
  \/ New
  \/ ServerDown
  \/ ServerUp
  \/ ClientPing
  \/ ClientListDatabases
  \/ ClientGetCurrentDatabase
  \/ ClientListSchemas
  \/ ClientListTables
  \/ ClientDescribeTable
  \/ ClientGetTableStats
  \/ ClientListIndexes
  \/ ClientExecuteQuery
  \/ ClientExplainQuery

SpecClient == Init /\ [][NextClient]_vars

\* ------------------------------------------------------------ driver faults
\* A session whose environment names one reachable server: every call finds
\* the connection usable, and the driver fails, if at all, on the statement.
InitFaults ==
  /\ Boot
  /\ env = [POSTGRES_URL |-> "csA", DATABASE_URL |-> ""]
  /\ up = {"csA"}
  /\ gateIn = <<>>
  /\ gateOut = GateIdle

NextFaults ==
  \/ New
  \/ ListDatabases
  \/ ListSchemas
  \/ ListTables
  \/ DescribeTable
  \/ ListIndexes
  \/ GetTableStats
  \/ ExecuteQuery
  \/ ExplainQuery

SpecFaults == InitFaults /\ [][NextFaults]_vars

\* The operations that take a schema, called through App and through the
\* tool handlers on a connected session.
NextSchema ==
  \/ New
  \/ ListTables
  \/ DescribeTable
  \/ GetTableStats
  \/ ListIndexes
  \/ ToolListTables
  \/ ToolDescribeTable
  \/ ToolGetTableStats
  \/ ToolListIndexes

SpecSchema == InitFaults /\ [][NextSchema]_vars

\* ------------------------------------------------------------ properties
\* The text the gate is specified on: upper(trim(S)).
GateAccepts(S) ==
  LET u == ToUpper(TrimSpace(S))
  IN HasPrefix(u, KwSelect) \/ HasPrefix(u, KwWith)

AcceptedWords ==
  {<<"s", "e", "l", "e", "c", "t">>, <<"S", "e", "l", "e", "c", "t">>,
   <<"S", "e", "L", "e", "C", "t">>}
RejectedWords ==
  {KwInsert, KwUpdate, KwDelete, KwDrop, <<"C", "R", "E", "A", "T", "E">>,
   <<"A", "L", "T", "E", "R">>}
AcceptedExamples ==
  {p \o w \o t : p \in GatePrefixes, w \in AcceptedWords, t \in GateTails}
RejectedExamples ==
  {w \o t : w \in RejectedWords, t \in GateTails}
    \cup {p \o t : p \in GatePrefixes, t \in {<<>>, <<" ">>}}

Events(e) == {i \in DOMAIN last.log : last.log[i].ev = e}
Count(e) == Cardinality(Events(e))
DataOps == {"ListDatabases", "ExecuteQuery", "ExplainQuery"}
PingFailed == Count("Ping") = 1 /\ ~last.log[1].ok
\* The driver handed over every row of the answer: neither rows.Scan nor
\* rows.Err failed.
RowsRead == ~(last.fault = "rows" \/ (last.fault = "scan" /\ last.n > 0))
Reconnected == \E i \in Events("Open") : last.log[i].ok
ReconnectFailed == Count("TryConnect") = 1 /\ ~Reconnected

\* C2: a data operation pings the connection once, first; it attempts a
\* reconnect only when that ping failed, once; it returns exactly
\* ErrConnectionRequired iff the client is nil or the ping and the single
\* reconnect both failed, and then it sends no query.
C2_EnsureConnectionOnce ==
  last.op \in DataOps =>
    /\ client = "nil" => last.log = <<>>
    /\ client = "impl" => Count("Ping") = 1 /\ last.log[1].ev = "Ping"
    /\ Count("TryConnect") <= 1 /\ Count("Open") <= 1
    /\ Count("TryConnect") = 1 <=> (client = "impl" /\ PingFailed)
    /\ (last.err = <<ErrConnectionRequired>>)
         <=> (client = "nil" \/ (PingFailed /\ ReconnectFailed))
    /\ (\E i \in Events("TryConnect") : last.log[i].cs = "")
         => last.err = <<ErrConnectionRequired>>
    /\ Is(last.err, ErrConnectionRequired) => Count("Query") = 0

C2_Witness ==
  /\ last.op = "ListDatabases"
  /\ PingFailed
  /\ \E i \in Events("Open") : ~last.log[i].ok /\ last.log[i].cs = "csA"
  /\ last.err = <<ErrConnectionRequired>>

\* C3: the session has at most one open handle; a handle that is replaced
\* has been closed first.
C3_AtMostOneOpenHandle == Cardinality(OpenIds) <= 1

C5_RejectedQueryNeverSent ==
  /\ (last.op \in {"client.ExecuteQuery", "client.ExplainQuery"}
        /\ db # 0 /\ ~GateAccepts(last.query))
       => last.err = <<ErrInvalidQuery>> /\ last.log = <<>>
  /\ (last.op \in {"ExecuteQuery", "ExplainQuery"} /\ ~last.isNil
        /\ last.query # <<>> /\ ~GateAccepts(last.query))
       => /\ Count("Query") = 0
          /\ Is(last.err, ErrConnectionRequired) \/ Is(last.err, ErrInvalidQuery)

C5_Witness ==
  /\ last.op = "client.ExplainQuery"
  /\ last.query = QDrop
  /\ db # 0 /\ hstate[db] = "open" /\ htarget[db] \in up
  /\ last.err = <<ErrInvalidQuery>>

\* C6: no statement the database executes for execute_query or
\* explain_query modifies data.
C6_NoWriteReachesDatabase == ~dataModified

\* C7: a data operation that finds no usable connection while the configured
\* connection string's server is reachable reconnects and runs its query on
\* the new handle in the same call, without ErrConnectionRequired; New never
\* returns an error.
C7_SelfHealingReconnect ==
  /\ last.op = "New" => last.err = NoErr /\ app = "ready"
  /\ (last.op \in DataOps /\ client = "impl" /\ PingFailed
        /\ EnvConnectionString \in up)
       => /\ Reconnected
          /\ ~Is(last.err, ErrConnectionRequired)
          /\ \E i \in Events("Open"), j \in Events("Query") :
               /\ i < j
               /\ last.log[j].h = last.log[i].h /\ last.log[j].h = db
               /\ (last.log[j].ok /\ RowsRead) => last.err = NoErr /\ last.res.row_count = last.n

C7_Witness ==
  /\ last.op = "ListDatabases"
  /\ PingFailed /\ last.log[1].h # 0
  /\ Reconnected
  /\ last.err = NoErr
  /\ last.res.row_count = MaxRows

\* C8 as stated: Disconnect never returns an error.
C8_DisconnectNeverErrors == last.op = "Disconnect" => last.err = NoErr

\* C8, amended: Disconnect never returns an error when the client is nil,
\* holds no handle or holds a closed one; after any Disconnect the handle is
\* closed, so a Disconnect that follows a Disconnect never returns an error.
C8_DisconnectOnClosedNeverErrors ==
  [][last'.op = "Disconnect"
       => /\ (client = "nil" \/ db = 0 \/ hstate[db] # "open") => last'.err = NoErr
          /\ db' = 0 \/ hstate'[db'] = "closed"
          /\ last.op = "Disconnect" => last'.err = NoErr]_vars

C8_Witness ==
  /\ last.op = "Disconnect"
  /\ Count("CloseClosed") = 1
  /\ last.err = NoErr

\* C9: ExecuteQuery truncates the full result after execution: the first L
\* rows when L > 0 and n > L, all n rows otherwise; row_count is the number
\* of rows returned; the statement sent is the caller's text and the columns
\* are the query's.
FullRows == processRows(DriverRows(last.n))
C9_LimitAppliedClientSide ==
  (last.op = "ExecuteQuery" /\ last.err = NoErr) =>
    LET k == IF last.limit > 0 /\ last.n > last.limit THEN last.limit ELSE last.n
    IN /\ last.res.rows = SubSeq(FullRows, 1, k)
       /\ last.res.row_count = k
       /\ last.res.columns = Columns
       /\ Count("Query") = 1
       /\ \A i \in Events("Query") : last.log[i].sql = last.query

C9_Witness ==
  /\ last.op = "ExecuteQuery"
  /\ last.limit = 1 /\ last.n = MaxRows
  /\ last.res.row_count = 1
  /\ last.res.rows = <<FullRows[1]>>

\* C10: when two calls in flight both found the connection unusable, no
\* query runs on a handle that the other call's reconnect replaced meanwhile,
\* and when both have reconnected and returned, one handle is open: the one
\* the client holds.
Installed == {procs[p].installed : p \in Procs} \ {0}
BothUnusable == \A p \in Procs : procs[p].unusable
C10_AtomicHandleReplacement ==
  BothUnusable =>
    /\ \A p \in Procs : procs[p].pc = "done" /\ procs[p].used # 0 => ~procs[p].stale
    /\ (AllDone /\ \A p \in Procs : procs[p].installed # 0)
         => /\ Cardinality(OpenIds) = 1
            /\ \A h \in Installed \ {db} : hstate[h] # "open"

\* A call that lacks its required table or query.
MissingParam ==
  \/ last.op \in {"DescribeTable", "GetTableStats", "ListIndexes"} /\ last.table = ""
  \/ last.op = "ExecuteQuery" /\ (last.isNil \/ last.query = <<>>)
  \/ last.op = "ExplainQuery" /\ last.query = <<>>
RequiredError ==
  IF last.op \in {"ExecuteQuery", "ExplainQuery"} THEN ErrQueryRequired ELSE ErrTableRequired

\* C11: a call that lacks its required table or query returns
\* ErrTableRequired / ErrQueryRequired without a ping, a reconnect or a query
\* having been made during the call.
C11_MissingParamBeforeRoundTrip ==
  MissingParam => last.err = <<RequiredError>> /\ last.log = <<>>

\* C12: on a session without a usable connection and without a configured
\* connection string, a call that lacks its required table or query returns
\* ErrConnectionRequired, not ErrTableRequired / ErrQueryRequired.
C12_ConnectionGateBeforeParams ==
  (MissingParam /\ (client = "nil" \/ (PingFailed /\ EnvConnectionString = "")))
    => last.err = <<ErrConnectionRequired>> /\ Count("Query") = 0

C12_Witness ==
  /\ last.op = "DescribeTable" /\ last.table = ""
  /\ client = "impl" /\ PingFailed /\ EnvConnectionString = ""
  /\ last.err = <<ErrConnectionRequired>>

ToolOps ==
  {"describe_table", "list_indexes", "get_table_stats", "execute_query", "explain_query"}
RequiredText ==
  IF last.op \in {"execute_query", "explain_query"} THEN ToolQueryRequired ELSE ToolTableRequired

\* C13: a tool handler whose required table or query argument is missing, empty
\* or not a string answers with a tool error naming the argument and calls no
\* App method: nothing is sent to the database.  With a non-empty string the
\* handler calls its App method once.
C13_ToolRejectsBadArgument ==
  last.op \in ToolOps =>
    IF Usable(last.tool.arg, IF RequiredText = ToolQueryRequired THEN <<>> ELSE "")
    THEN Len(last.tool.calls) = 1
    ELSE /\ last.tool.isError
         /\ last.tool.text = RequiredText
         /\ last.tool.calls = <<>>
         /\ last.log = <<>>
         /\ last.err = NoErr
C13_Witness ==
  /\ last.op = "describe_table"
  /\ last.tool.arg.kind = "number"
  /\ last.tool.isError
  /\ last.tool.calls = <<>>
  /\ db # 0

\* The statement of the call reached the database and was answered.
QueryAnswered == \E i \in Events("Query") : last.log[i].ok

\* C14: DescribeTable fails with ErrTableNotFound exactly when the column query
\* was answered with zero columns; with one or more columns it returns them
\* all, in ordinal-position order, and no error.
C14_TableNotFoundIffNoColumns ==
  last.op = "DescribeTable" =>
    /\ Is(last.err, ErrTableNotFound) <=> (QueryAnswered /\ last.n = 0)
    /\ (QueryAnswered /\ RowsRead /\ last.n > 0) =>
         /\ last.err = NoErr
         /\ Len(last.res.rows) = last.n
         /\ \A i \in 1..last.n : last.res.rows[i].ordinal = i
C14_Witness ==
  /\ last.op = "DescribeTable"
  /\ last.schema = "public"
  /\ QueryAnswered
  /\ last.n = 0
  /\ Is(last.err, ErrTableNotFound)

ListOps == {"ListTables", "ListDatabases", "ListSchemas", "ListIndexes"}

\* C15: a list-returning operation whose statement was answered with zero
\* rows succeeds with an empty list: ListTables for a schema that does not
\* exist or holds nothing, and ListDatabases, ListSchemas and ListIndexes
\* likewise.
C15_EmptyListIsSuccess ==
  (last.op \in ListOps /\ QueryAnswered /\ last.n = 0) =>
    /\ last.err = NoErr
    /\ last.res.rows = <<>>
C15_Witness ==
  /\ last.op = "ListTables"
  /\ last.schema = "nope"
  /\ QueryAnswered
  /\ last.err = NoErr
  /\ last.res.rows = <<>>

\* C16: ListTables without include_size returns every TableInfo with
\* row_count 0 and an empty size; with include_size every TableInfo has a
\* size and a row_count of at least 0.
C16_IncludeSizePopulatesStats ==
  (last.op = "ListTables" /\ last.err = NoErr) =>
    \A i \in 1..Len(last.res.rows) :
      IF last.includeSize
      THEN last.res.rows[i].Size # "" /\ last.res.rows[i].RowCount >= 0
      ELSE last.res.rows[i].Size = "" /\ last.res.rows[i].RowCount = 0

\* The listing asked for statistics: ListTables with include_size, or
\* ListTablesWithStats itself.
WithStats ==
  \/ last.op = "ListTables" /\ last.includeSize
  \/ last.op = "client.ListTablesWithStats"
\* The estimate of the i-th listed relation is zero or absent, and the
\* operation counts such a relation.
FallsBack(i) ==
  /\ ~last.query[i].ans.est.valid \/ last.query[i].ans.est.val = 0
  /\ last.op = "ListTables" \/ last.query[i].Type = "table"
FallbackFailed(i) == FallsBack(i) /\ ~last.query[i].ans.countOk
\* The statistics of the i-th listed relation.
OwnCount(i) ==
  IF FallsBack(i) THEN last.query[i].ans.count
  ELSE IF last.query[i].ans.est.valid THEN last.query[i].ans.est.val ELSE 0

\* C17: a listing with statistics whose fallback row count fails for one
\* table still succeeds: that table is returned with row_count 0, every other
\* table with its own statistics, and the list holds every relation, in order.
C17_FallbackFailureIsSkipped ==
  (WithStats /\ QueryAnswered) =>
    /\ last.err = NoErr
    /\ Len(last.res.rows) = Len(last.query)
    /\ \A i \in 1..Len(last.query) :
         /\ last.res.rows[i].Name = RelNames[i]
         /\ last.res.rows[i].RowCount = IF FallbackFailed(i) THEN 0 ELSE OwnCount(i)
C17_Witness ==
  /\ last.op = "ListTables"
  /\ last.includeSize
  /\ QueryAnswered
  /\ Len(last.query) = 2
  /\ FallbackFailed(1)
  /\ ~FallsBack(2)
  /\ last.err = NoErr
  /\ last.res.rows[1].RowCount = 0
  /\ last.res.rows[2].RowCount = 1

\* The row count the statistics answer ans stands for: the estimate when a
\* statistics row exists and is not zero, the exact count otherwise.
StatsRowCount(ans) ==
  IF ans.est.valid /\ ans.est.val # 0 THEN ans.est.val ELSE ans.count
\* The exact count, when needed, can be taken.
Countable(ans) == (ans.est.valid /\ ans.est.val # 0) \/ ans.countOk
GetTableStatsRule ==
  (last.op = "GetTableStats" /\ last.err = NoErr) =>
    /\ last.res.rows[1].RowCount = StatsRowCount(last.query[1])
    /\ last.res.rows[1].Schema = SchemaOrDefault(last.schema)
    /\ last.res.rows[1].Name = last.table

\* C18: GetTableStats returns the statistics estimate when a statistics row
\* exists and the estimate is not zero, and the exact COUNT(*) otherwise, in a
\* record carrying the requested schema (public by default) and table; the
\* listing with statistics applies the same rule to every relation it lists.
C18_SameFallbackAsListing ==
  /\ GetTableStatsRule
  /\ (last.op = "client.ListTablesWithStats" /\ last.err = NoErr) =>
       \A i \in 1..Len(last.query) :
         Countable(last.query[i].ans) =>
           last.res.rows[i].RowCount = StatsRowCount(last.query[i].ans)
\* C18, amended: as above, the listing applying the rule to the relations of
\* type table only; a view is listed with row_count 0 and never counted.
C18_SameFallbackForTables ==
  /\ GetTableStatsRule
  /\ (last.op = "client.ListTablesWithStats" /\ last.err = NoErr) =>
       \A i \in 1..Len(last.query) :
         /\ (last.query[i].Type = "table" /\ Countable(last.query[i].ans)) =>
              last.res.rows[i].RowCount = StatsRowCount(last.query[i].ans)
         /\ last.query[i].Type = "view" => last.res.rows[i].RowCount = 0
C18_Witness ==
  /\ last.op = "GetTableStats"
  /\ last.err = NoErr
  /\ last.schema = ""
  /\ last.query[1].est = [valid |-> TRUE, val |-> 0]
  /\ last.res.rows[1].RowCount = MaxRows
  /\ last.res.rows[1].Schema = "public"

\* C19: ListIndexes reports the columns of each index as the list of column
\* names the index is defined on, each name intact, whatever characters the
\* names hold: an index on "a,b,c" and id has exactly 2 columns.
C19_IndexColumnsIntact ==
  (last.op = "ListIndexes" /\ last.err = NoErr /\ QueryAnswered) =>
    /\ Len(last.res.rows) = Len(last.query)
    /\ \A i \in 1..Len(last.query) : last.res.rows[i].Columns = last.query[i].Columns

\* C20: the row materializer turns a value into text exactly when the driver
\* value is a byte sequence; an integer, float, boolean, null or string is
\* returned unchanged, and the rows and the values in each row keep their
\* number and order.
C20_OnlyBytesBecomeText ==
  gateOut.done =>
    /\ Len(gateOut.rows) = Len(gateIn)
    /\ \A i \in 1..Len(gateIn) :
         /\ Len(gateOut.rows[i]) = Len(gateIn[i])
         /\ \A j \in 1..Len(gateIn[i]) :
              IF gateIn[i][j].kind = "bytes"
              THEN gateOut.rows[i][j] = [kind |-> "string", val |-> gateIn[i][j].val]
              ELSE gateOut.rows[i][j] = gateIn[i][j]
C20_Witness ==
  /\ gateOut.done
  /\ Len(gateIn) = 2
  /\ gateIn[1] = <<[kind |-> "bytes", val |-> 2], [kind |-> "int64", val |-> 1]>>
  /\ gateIn[2] = <<[kind |-> "nil", val |-> 0], [kind |-> "bytes", val |-> 1]>>
  /\ gateOut.rows[1] = <<[kind |-> "string", val |-> 2], [kind |-> "int64", val |-> 1]>>
  /\ gateOut.rows[2] = <<[kind |-> "nil", val |-> 0], [kind |-> "string", val |-> 1]>>

FaultOps ==
  {"ListDatabases", "ListSchemas", "ListTables", "DescribeTable", "ListIndexes",
   "GetTableStats", "ExecuteQuery", "ExplainQuery"}
\* The driver failed in the call: on a statement (for ListTables, on the
\* listing statement, the statistics of a table being best effort), in the
\* scan of a row, or in the iteration.
DriverFailed ==
  \/ \E i \in Events("Query") :
       /\ ~last.log[i].ok
       /\ last.op = "ListTables" => \A j \in Events("Query") : i <= j
  \/ QueryAnswered /\ last.fault = "rows"
  \/ QueryAnswered /\ last.fault = "scan" /\ last.n > 0

\* C21: when the driver fails while a catalog or query operation runs its
\* statement, scans a row or iterates the rows, the operation returns an error
\* wrapping the driver's error and no result.
C21_DriverErrorPropagated ==
  (last.op \in FaultOps /\ DriverFailed) =>
    /\ Is(last.err, DriverError)
    /\ last.res = NoResult
C21_Witness ==
  /\ last.op = "ExecuteQuery"
  /\ last.fault = "scan"
  /\ QueryAnswered
  /\ Is(last.err, DriverError)
  /\ last.res = NoResult

C23_EnvironmentFallback ==
  /\ \A i \in Events("TryConnect") :
       /\ env.POSTGRES_URL # "" => last.log[i].cs = env.POSTGRES_URL
       /\ env.POSTGRES_URL = "" => last.log[i].cs = env.DATABASE_URL
       /\ IF last.log[i].cs = ""
          THEN Count("Open") = 0
          ELSE /\ i < Len(last.log)
               /\ last.log[i + 1].ev = "Open"
               /\ last.log[i + 1].cs = last.log[i].cs
  /\ (env.POSTGRES_URL = "" /\ env.DATABASE_URL = "") =>
       /\ tryConnect(Sess).err = <<ErrNoConnectionString>>
       /\ \A i \in DOMAIN tryConnect(Sess).s.log : tryConnect(Sess).s.log[i].ev # "Open"
C23_Witness ==
  /\ last.op = "ListDatabases"
  /\ env.POSTGRES_URL = ""
  /\ env.DATABASE_URL = "csB"
  /\ PingFailed
  /\ \E i \in Events("Open") : last.log[i].cs = "csB" /\ last.log[i].ok

\* C24: on a client that has never connected, Ping and every data operation
\* return "no database connection" without sending a statement, and for
\* ExecuteQuery and ExplainQuery that check comes before the safety gate: a
\* write statement gets the connection error, not the gate's.
ClientOps ==
  {"client.Ping", "client.ListDatabases", "client.GetCurrentDatabase", "client.ListSchemas",
   "client.ListTables", "client.DescribeTable", "client.GetTableStats", "client.ListIndexes",
   "client.ExecuteQuery", "client.ExplainQuery"}
AppSchemaOps == {"ListTables", "DescribeTable", "GetTableStats", "ListIndexes"}
ToolSchemaOps == {"list_tables", "describe_table", "get_table_stats", "list_indexes"}
CallerSchema ==
  IF last.op \in ToolSchemaOps
  THEN IF last.sarg.kind = "string" THEN last.sarg.val ELSE ""
  ELSE IF last.isNil THEN "" ELSE last.schema
SchemaUsed(sch) ==
  /\ \A i \in Events("Query") : last.log[i].sql[2] = sch
  /\ (last.err = NoErr /\ last.op \in {"ListTables", "list_tables", "GetTableStats", "get_table_stats"}) =>
       \A j \in DOMAIN last.res.rows : last.res.rows[j].Schema = sch
C25_SchemaDefaultsToPublic ==
  last.op \in AppSchemaOps \cup ToolSchemaOps =>
    IF CallerSchema = "" THEN SchemaUsed("public") ELSE SchemaUsed(CallerSchema)
C25_Witness ==
  /\ last.op = "list_tables" /\ last.sarg = NumArg(1) /\ last.err = NoErr
  /\ Count("Query") = 1 /\ Len(last.res.rows) = 1 /\ last.res.rows[1].Schema = "public"

\* C26: a tool handler reports every failure (argument validation, connection
\* gate, safety gate, driver error, JSON marshalling) as a tool-result error
\* text with a nil Go error, and after a failed call the session still serves
\* the next tool call: the handlers' guards hold, and list_databases called
\* next succeeds exactly when the configured server can be reached.
AllToolOps == ToolOps \cup {"list_databases", "list_schemas", "list_tables"}
ToolFailure ==
  \/ last.tool.calls = <<>>
  \/ last.err # NoErr
  \/ last.fault = "marshal"
C26_FailuresAreValues ==
  last.op \in AllToolOps =>
    /\ last.tool.goErr = NoErr
    /\ last.tool.isError <=> ToolFailure
    /\ last.tool.isError =>
         /\ last.tool.text \notin {<<>>, <<"json">>}
         /\ last.res = NoResult
         /\ Ready /\ Room
         /\ toolListDatabases(Sess, TRUE, MaxRows).tool.goErr = NoErr
         /\ toolListDatabases(Sess, TRUE, MaxRows).tool.isError
              <=> ~(client = "impl" /\ EnvConnectionString \in up)
C26_Witness ==
  /\ last.op = "execute_query" /\ last.tool.isError /\ last.tool.goErr = NoErr
  /\ last.err # NoErr /\ last.err[Len(last.err)] = ErrInvalidQuery
  /\ EnvConnectionString \in up

\* C27: for every index ListIndexes returns, the reported columns are the
\* plain columns of the index key, each once, in the order of their first
\* position in the key array, never in alphabetical or attribute order; an
\* expression entry of the key is left out.  For a key of distinct plain
\* columns this is the declared column list: (last_name, first_name, email)
\* yields exactly that sequence.  (Names that PostgreSQL prints unquoted.)
RECURSIVE KeyColumns(_, _, _)
KeyColumns(d, i, seen) ==
  IF i > Len(d.indkey) THEN <<>>
  ELSE IF d.indkey[i] \in DOMAIN d.attr /\ d.indkey[i] \notin seen
       THEN <<d.attr[d.indkey[i]]>> \o KeyColumns(d, i + 1, seen \cup {d.indkey[i]})
       ELSE KeyColumns(d, i + 1, seen)
\* The declared key, entry by entry; an expression has no column name.
DeclaredKey(d) ==
  [i \in 1..Len(d.indkey) |->
     IF d.indkey[i] \in DOMAIN d.attr THEN d.attr[d.indkey[i]] ELSE <<"(", ")">>]
PlainKey(d) ==
  \A i \in DOMAIN d.indkey :
    /\ d.indkey[i] \in DOMAIN d.attr
    /\ \A j \in DOMAIN d.indkey : d.indkey[j] = d.indkey[i] => j = i
Unquoted(d) ==
  \A k \in DOMAIN d.attr :
    d.attr[k] # <<>> /\ \A c \in DOMAIN d.attr[k] : d.attr[k][c] \notin {",", "{", "}", " "}
IndexesListed == last.op = "ListIndexes" /\ last.err = NoErr /\ QueryAnswered
Closes == Events("Close") \cup Events("CloseClosed")
C28_DisconnectIsNotTerminal ==
  (last.op = "Disconnect" /\ Closes # {}) =>
    /\ \A i \in Closes : last.log[i].h = db
    /\ db # 0 /\ hstate[db] = "closed"
    /\ Ready
    /\ Room =>
         LET r == AppListDatabases(Sess, TRUE, MaxRows)
         IN /\ r.s.log[1].ev = "Ping" /\ r.s.log[1].h = db /\ ~r.s.log[1].ok
            /\ r.s.log[2].ev = "TryConnect" /\ r.s.log[2].cs = EnvConnectionString
            /\ IF EnvConnectionString \in up
               THEN r.err = NoErr /\ r.s.db # db /\ Alive(r.s, r.s.db)
                    /\ r.s.htarget[r.s.db] = EnvConnectionString
               ELSE r.err = <<ErrConnectionRequired>> /\ r.s.db = db
C28_Witness ==
  /\ last.op = "Disconnect" /\ Count("Close") = 1 /\ db # 0 /\ hstate[db] = "closed"
  /\ EnvConnectionString \in up /\ Room

\* C29: automatic reconnection never uses the connection string the client
\* stored: when the connection made by Connect(X) is unusable, the data
\* operation opens the environment's string only, ends connected to the
\* environment's server even when it differs from X, and returns
\* ErrConnectionRequired without opening anything when the environment is
\* empty although X is stored.
StoredUnusable == client = "impl" /\ connectionString # "" /\ db # 0 /\ ~Alive(Sess, db)
C29_ReconnectIgnoresStoredString ==
  /\ (StoredUnusable /\ Room) =>
       LET r == ensureConnection(Sess)
       IN /\ \A i \in DOMAIN r.s.log :
               r.s.log[i].ev = "Open" => r.s.log[i].cs = EnvConnectionString
          /\ EnvConnectionString = "" =>
               /\ r.err = <<ErrConnectionRequired>>
               /\ \A i \in DOMAIN r.s.log : r.s.log[i].ev # "Open"
               /\ r.s.db = db /\ r.s.cstr = connectionString
          /\ EnvConnectionString \in up =>
               /\ r.err = NoErr
               /\ r.s.htarget[r.s.db] = EnvConnectionString
               /\ r.s.cstr = EnvConnectionString
  /\ (last.op = "ListDatabases" /\ PingFailed) =>
       /\ \A i \in Events("Open") : last.log[i].cs = EnvConnectionString
       /\ Reconnected => htarget[db] = EnvConnectionString /\ connectionString = EnvConnectionString
C29_Witness ==
  /\ StoredUnusable /\ Room
  /\ connectionString \in up /\ EnvConnectionString \in up
  /\ connectionString # EnvConnectionString

\* C30: every QueryResult returned by ExecuteQuery or ExplainQuery, by the
\* client or by App, with or without a limit, has row_count equal to the
\* number of its rows, and each row has as many values as there are column
\* names.
QueryOps == {"ExecuteQuery", "ExplainQuery", "client.ExecuteQuery", "client.ExplainQuery"}
C30_ResultShape ==
  (last.op \in QueryOps /\ last.err = NoErr) =>
    /\ last.res.row_count = Len(last.res.rows)
    /\ \A i \in DOMAIN last.res.rows : Len(last.res.rows[i]) = Len(last.res.columns)
C30_Witness ==
  /\ last.op = "ExecuteQuery" /\ last.err = NoErr
  /\ last.limit > 0 /\ last.limit < last.n
  /\ Len(last.res.rows) = last.limit /\ Len(last.res.rows[1]) = Len(Columns)

====
